---- MODULE Spec2Model ----
(***************************************************************************)
(* Vehicle detection system: the IoU tracker (vehicle_tracker.py), the     *)
(* ROI crossing counter (roi_manager.py) and the job code that drives      *)
(* them (video_processor.py, app.py).                                      *)
(*                                                                         *)
(* Conventions                                                             *)
(*  - a bounding box is the tuple <<x1, y1, x2, y2>> of integers;          *)
(*  - a center is ((x1+x2)/2, (y1+y2)/2) in the code, a pair of floats     *)
(*    that are whole or half numbers; the model stores it DOUBLED,         *)
(*    <<x1+x2, y1+y2>>, so that it stays an integer pair;                  *)
(*  - a confidence is stored in tenths (9 is 0.9);                         *)
(*  - an IoU is the exact fraction <<intersection, union>>; <<0, 1>> is    *)
(*    the 0.0 the code returns;                                            *)
(*  - a Python dict is a sequence in insertion order (self.tracks) or a    *)
(*    function (self.track_history, by_type);                              *)
(*  - Python's None is the string "None".                                  *)
(***************************************************************************)
EXTENDS Integers, Sequences, FiniteSets, TLC

VARIABLES
    max_age,          \* VehicleTracker.max_age
    n_init,           \* VehicleTracker.n_init
    tracks,           \* VehicleTracker.tracks, in insertion order
    next_id,          \* VehicleTracker.next_id
    track_history,    \* VehicleTracker.track_history: id -> sequence of entries
    frame_count,      \* VehicleTracker.frame_count
    roi_points,       \* ROIManager.roi_points
    counting_lines,   \* ROIManager.counting_lines
    vehicle_counts,   \* ROIManager.vehicle_counts
    crossed_vehicles, \* ROIManager.crossed_vehicles
    entry_log,        \* ROIManager.entry_log
    exit_log,         \* ROIManager.exit_log
    issued,           \* history variable: every identity handed out since the process started
    frame_tracks,     \* process_frame's list "tracks" after the crossing checks
    scenario_pos,     \* history variable: how far the frames fed follow the scenario
    processing_status,\* app.py: processing_status, process id -> status record
    jobs,             \* the request and the locals of each job's thread
    thread,           \* history variable: the job whose thread took the last step
    last              \* the last call made: its name, arguments and result

trackerVars == <<max_age, n_init, tracks, next_id, track_history, frame_count, issued>>
roiVars == <<roi_points, counting_lines, vehicle_counts, crossed_vehicles, entry_log, exit_log>>
restVars == <<frame_tracks, scenario_pos, processing_status, jobs, thread>>
vars == <<max_age, n_init, tracks, next_id, track_history, frame_count, issued,
          roi_points, counting_lines, vehicle_counts, crossed_vehicles, entry_log,
          exit_log, frame_tracks, scenario_pos, processing_status, jobs, thread, last>>

None == "None"

(***************************************************************************)
(* Bounds of the model.                                                    *)
(***************************************************************************)
MaxFrames == 5
MaxId == 3
MaxDets == 2
SmallMaxAge == 2

(***************************************************************************)
(* Program constants.                                                      *)
(***************************************************************************)
DefaultMaxAge == 30
DefaultNInit == 3
MaxIouNum == 7
MaxIouDen == 10
HistoryCap == 30

Max(a, b) == IF a >= b THEN a ELSE b
Min(a, b) == IF a <= b THEN a ELSE b

(***************************************************************************)
(* The detections a frame can carry.  BoxA1 overlaps BoxA with IoU 0.9,    *)
(* BoxE overlaps BoxA with IoU exactly 0.7 (not above the threshold) and   *)
(* BoxA1 with IoU 7/9.                                                     *)
(***************************************************************************)
BoxA == <<0, 0, 10, 10>>
BoxA1 == <<0, 0, 10, 9>>
BoxE == <<0, 0, 10, 7>>

Detections ==
    { [bbox |-> BoxA, confidence |-> 9, class_name |-> "car"],
      [bbox |-> BoxA1, confidence |-> 8, class_name |-> "truck"],
      [bbox |-> BoxE, confidence |-> 7, class_name |-> "car"] }

DetectionLists == UNION { [1..n -> Detections] : n \in 0..MaxDets }

\* VehicleTracker.__init__: "max_age or 30", "n_init or 3".  An argument that
\* is None or 0 is falsy and gives the default; both are written 0 here.
CtorOr(arg, default) == IF arg = 0 THEN default ELSE arg

NoArg == 0
MaxAgeArgs == {SmallMaxAge}
NInitArgs == {NoArg}

\* update_tracks, lines 41-52: the detection with its center added
Center(bbox) == <<bbox[1] + bbox[3], bbox[2] + bbox[4]>>

ConvertDetections(detections) ==
    [j \in 1..Len(detections) |->
        [bbox |-> detections[j].bbox,
         confidence |-> detections[j].confidence,
         class_name |-> detections[j].class_name,
         center |-> Center(detections[j].bbox)]]

\* a variant of _calculate_iou whose union does not subtract the intersection
CalculateIouUnionSum(bbox1, bbox2) ==
    LET x1_i == IF bbox1[1] >= bbox2[1] THEN bbox1[1] ELSE bbox2[1]
        y1_i == IF bbox1[2] >= bbox2[2] THEN bbox1[2] ELSE bbox2[2]
        x2_i == IF bbox1[3] <= bbox2[3] THEN bbox1[3] ELSE bbox2[3]
        y2_i == IF bbox1[4] <= bbox2[4] THEN bbox1[4] ELSE bbox2[4]
        intersection == (x2_i - x1_i) * (y2_i - y1_i)
        area1 == (bbox1[3] - bbox1[1]) * (bbox1[4] - bbox1[2])
        area2 == (bbox2[3] - bbox2[1]) * (bbox2[4] - bbox2[2])
        union == area1 + area2
    IN  IF x2_i <= x1_i \/ y2_i <= y1_i THEN <<0, 1>>
        ELSE IF union > 0 THEN <<intersection, union>>
        ELSE <<0, 1>>

\* a variant of _calculate_iou without the test of line 184
CalculateIouNoOverlapTest(bbox1, bbox2) ==
    LET x1_i == IF bbox1[1] >= bbox2[1] THEN bbox1[1] ELSE bbox2[1]
        y1_i == IF bbox1[2] >= bbox2[2] THEN bbox1[2] ELSE bbox2[2]
        x2_i == IF bbox1[3] <= bbox2[3] THEN bbox1[3] ELSE bbox2[3]
        y2_i == IF bbox1[4] <= bbox2[4] THEN bbox1[4] ELSE bbox2[4]
        intersection == (x2_i - x1_i) * (y2_i - y1_i)
        area1 == (bbox1[3] - bbox1[1]) * (bbox1[4] - bbox1[2])
        area2 == (bbox2[3] - bbox2[1]) * (bbox2[4] - bbox2[2])
        union == area1 + area2 - intersection
    IN  IF union > 0 THEN <<intersection, union>>
        ELSE <<0, 1>>

(***************************************************************************)
(* _calculate_iou: intersection over union, 0.0 when the boxes do not      *)
(* overlap or the union is not positive.                                   *)
(***************************************************************************)
CalculateIou(bbox1, bbox2) ==
    LET x1_i == Max(bbox1[1], bbox2[1])
        y1_i == Max(bbox1[2], bbox2[2])
        x2_i == Min(bbox1[3], bbox2[3])
        y2_i == Min(bbox1[4], bbox2[4])
        intersection == (x2_i - x1_i) * (y2_i - y1_i)
        area1 == (bbox1[3] - bbox1[1]) * (bbox1[4] - bbox1[2])
        area2 == (bbox2[3] - bbox2[1]) * (bbox2[4] - bbox2[2])
        union == area1 + area2 - intersection
    IN  IF x2_i <= x1_i \/ y2_i <= y1_i THEN <<0, 1>>
        ELSE IF union > 0 THEN <<intersection, union>>
        ELSE <<0, 1>>

\* a > b for two IoU fractions with positive denominators
IouGreater(a, b) == a[1] * b[2] > b[1] * a[2]

\* "iou_matrix[i, best_j] > self.max_iou_distance"
AboveThreshold(iou) == iou[1] * MaxIouDen > MaxIouNum * iou[2]

\* _calculate_iou_matrix: np.array([]) (here <<>>) without tracks or detections
CalculateIouMatrix(trks, detections) ==
    IF Len(trks) = 0 \/ Len(detections) = 0 THEN <<>>
    ELSE [i \in 1..Len(trks) |->
            [j \in 1..Len(detections) |-> CalculateIou(trks[i].bbox, detections[j].bbox)]]

\* np.argmax of a row: the first index that holds the maximum
ArgMax(row) ==
    CHOOSE j \in 1..Len(row) :
        /\ \A k \in 1..Len(row) : ~IouGreater(row[k], row[j])
        /\ \A k \in 1..(j - 1) : IouGreater(row[j], row[k])

(***************************************************************************)
(* _associate_tracks: rows in order, each takes its best column if that    *)
(* is above the threshold and not yet taken.  The result is the pair of    *)
(* lists matched_tracks, matched_detections (indices from 1).              *)
(***************************************************************************)
RECURSIVE AssociateFrom(_, _, _, _)
AssociateFrom(iou_matrix, i, matched_tracks, matched_detections) ==
    IF i > Len(iou_matrix) THEN <<matched_tracks, matched_detections>>
    ELSE LET best_j == ArgMax(iou_matrix[i])
         IN  IF /\ AboveThreshold(iou_matrix[i][best_j])
                /\ \A k \in 1..Len(matched_detections) : matched_detections[k] # best_j
             THEN AssociateFrom(iou_matrix, i + 1, Append(matched_tracks, i),
                                Append(matched_detections, best_j))
             ELSE AssociateFrom(iou_matrix, i + 1, matched_tracks, matched_detections)

\* a variant of _associate_tracks without the "best_j not in matched_detections" test
RECURSIVE AssociateFromNoClaimCheck(_, _, _, _)
AssociateFromNoClaimCheck(iou_matrix, i, matched_tracks, matched_detections) ==
    IF i > Len(iou_matrix) THEN <<matched_tracks, matched_detections>>
    ELSE LET best_j == ArgMax(iou_matrix[i])
         IN  IF AboveThreshold(iou_matrix[i][best_j])
             THEN AssociateFromNoClaimCheck(iou_matrix, i + 1, Append(matched_tracks, i),
                                            Append(matched_detections, best_j))
             ELSE AssociateFromNoClaimCheck(iou_matrix, i + 1, matched_tracks,
                                            matched_detections)

AssociateTracksNoClaimCheck(iou_matrix) ==
    IF Len(iou_matrix) = 0 THEN <<(<<>>), (<<>>)>>
    ELSE AssociateFromNoClaimCheck(iou_matrix, 1, <<>>, <<>>)

\* a variant of _associate_tracks that visits the rows from the last to the first
RECURSIVE AssociateFromReversed(_, _, _, _)
AssociateFromReversed(iou_matrix, i, matched_tracks, matched_detections) ==
    IF i < 1 THEN <<matched_tracks, matched_detections>>
    ELSE LET best_j == ArgMax(iou_matrix[i])
         IN  IF /\ AboveThreshold(iou_matrix[i][best_j])
                /\ \A k \in 1..Len(matched_detections) : matched_detections[k] # best_j
             THEN AssociateFromReversed(iou_matrix, i - 1, Append(matched_tracks, i),
                                        Append(matched_detections, best_j))
             ELSE AssociateFromReversed(iou_matrix, i - 1, matched_tracks,
                                        matched_detections)

AssociateTracksReversed(iou_matrix) ==
    IF Len(iou_matrix) = 0 THEN <<(<<>>), (<<>>)>>
    ELSE AssociateFromReversed(iou_matrix, Len(iou_matrix), <<>>, <<>>)

AssociateTracks(iou_matrix) ==
    IF Len(iou_matrix) = 0 THEN <<(<<>>), (<<>>)>>
    ELSE AssociateFrom(iou_matrix, 1, <<>>, <<>>)

\* the history entry of lines 102-109
HistoryEntry(detection, frame) ==
    [frame |-> frame,
     center |-> detection.center,
     bbox |-> detection.bbox,
     confidence |-> detection.confidence,
     class_name |-> detection.class_name,
     timestamp |-> frame]

\* a variant of lines 111-113 that keeps the oldest 30 entries
TruncateHistoryOldest(h) ==
    IF Len(h) > HistoryCap THEN SubSeq(h, 1, HistoryCap) ELSE h

\* lines 111-113: keep the last 30 entries
TruncateHistory(h) ==
    IF Len(h) > HistoryCap THEN SubSeq(h, Len(h) - HistoryCap + 1, Len(h)) ELSE h

\* lines 99-113
AppendHistory(history, track_id, entry) ==
    LET old == IF track_id \in DOMAIN history THEN history[track_id] ELSE <<>>
    IN  [t \in DOMAIN history \cup {track_id} |->
            IF t = track_id THEN TruncateHistory(Append(old, entry)) ELSE history[t]]

\* a variant of lines 90-96 and 115-118 whose aging loop does not skip the
\* matched tracks
UpdateMatchedTrackAlsoAged(track, detection) ==
    [track_id |-> track.track_id,
     bbox |-> detection.bbox,
     confidence |-> detection.confidence,
     class_name |-> detection.class_name,
     center |-> detection.center,
     hits |-> track.hits + 1,
     age |-> 1]

\* lines 90-96: a matched track takes the detection's fields
UpdateMatchedTrack(track, detection) ==
    [track_id |-> track.track_id,
     bbox |-> detection.bbox,
     confidence |-> detection.confidence,
     class_name |-> detection.class_name,
     center |-> detection.center,
     hits |-> track.hits + 1,
     age |-> 0]

\* lines 115-118: an unmatched track ages by one
AgeUnmatchedTrack(track) == [track EXCEPT !.age = @ + 1]

\* the detection index matched to track row i, 0 when the row is unmatched
MatchOf(m, i) ==
    IF \E k \in 1..Len(m[1]) : m[1][k] = i
    THEN m[2][CHOOSE k \in 1..Len(m[1]) : m[1][k] = i]
    ELSE 0

RECURSIVE HistoryAfterMatches(_, _, _, _, _, _)
HistoryAfterMatches(history, trks, detections, m, k, frame) ==
    IF k > Len(m[1]) THEN history
    ELSE HistoryAfterMatches(
             AppendHistory(history, trks[m[1][k]].track_id,
                           HistoryEntry(detections[m[2][k]], frame)),
             trks, detections, m, k + 1, frame)

(***************************************************************************)
(* _update_existing_tracks: the tracks and the history after it, and the   *)
(* matching it used.                                                       *)
(***************************************************************************)
UpdateExistingTracks(trks, history, detections, frame) ==
    LET m == AssociateTracks(CalculateIouMatrix(trks, detections))
    IN  [tracks |-> [i \in 1..Len(trks) |->
                        IF MatchOf(m, i) # 0
                        THEN UpdateMatchedTrack(trks[i], detections[MatchOf(m, i)])
                        ELSE AgeUnmatchedTrack(trks[i])],
         track_history |-> HistoryAfterMatches(history, trks, detections, m, 1, frame),
         matched_tracks |-> m[1],
         matched_detections |-> m[2]]

\* a variant of lines 124-131 that takes every column above the threshold as matched
CreateMatchedAnyAbove(trks, detections) ==
    LET iou_matrix == CalculateIouMatrix(trks, detections)
    IN  { j \in 1..Len(detections) :
            \E i \in 1..Len(iou_matrix) : AboveThreshold(iou_matrix[i][j]) }

\* a variant of lines 124-131 that looks at the first row only
CreateMatchedFirstRowOnly(trks, detections) ==
    LET iou_matrix == CalculateIouMatrix(trks, detections)
    IN  { ArgMax(iou_matrix[i]) : i \in { r \in 1..Min(1, Len(iou_matrix)) :
                                    AboveThreshold(iou_matrix[r][ArgMax(iou_matrix[r])]) } }

\* _create_new_tracks, lines 124-131: the detections it takes as matched
CreateMatchedDetections(trks, detections) ==
    LET iou_matrix == CalculateIouMatrix(trks, detections)
    IN  { ArgMax(iou_matrix[i]) : i \in { r \in 1..Len(iou_matrix) :
                                    AboveThreshold(iou_matrix[r][ArgMax(iou_matrix[r])]) } }

\* lines 139-146
NewTrack(track_id, detection) ==
    [track_id |-> track_id,
     bbox |-> detection.bbox,
     confidence |-> detection.confidence,
     class_name |-> detection.class_name,
     center |-> detection.center,
     hits |-> 1,
     age |-> 0]

RECURSIVE CreateFrom(_, _, _, _, _)
CreateFrom(trks, nid, detections, matched, j) ==
    IF j > Len(detections) THEN [tracks |-> trks, next_id |-> nid]
    ELSE IF j \in matched THEN CreateFrom(trks, nid, detections, matched, j + 1)
    ELSE CreateFrom(Append(trks, NewTrack(nid, detections[j])), nid + 1,
                    detections, matched, j + 1)

\* _create_new_tracks
CreateNewTracks(trks, nid, detections) ==
    CreateFrom(trks, nid, detections, CreateMatchedDetections(trks, detections), 1)

TrackIds(trks) == { trks[i].track_id : i \in 1..Len(trks) }

\* a variant of line 152 that evicts one call early
TooOldEarly(track, maxAge) == track.age >= maxAge

\* _remove_old_tracks, line 152: the test that evicts a track
TooOld(track, maxAge) == track.age > maxAge

\* _remove_old_tracks
RemoveOldTracks(trks, history, maxAge) ==
    LET kept == SelectSeq(trks, LAMBDA t : ~TooOld(t, maxAge))
        removed == TrackIds(trks) \ TrackIds(kept)
    IN  [tracks |-> kept,
         track_history |-> [t \in DOMAIN history \ removed |-> history[t]]]

\* a variant of line 66 without the hit-count test
IsActiveNoHits(track, maxAge, nInit) == track.age < maxAge

\* a variant of line 66 that still reports a track whose age is max_age
IsActiveAtMaxAge(track, maxAge, nInit) == track.age <= maxAge /\ track.hits >= nInit

\* update_tracks, line 66: the test that reports a track
IsActive(track, maxAge, nInit) == track.age < maxAge /\ track.hits >= nInit

\* update_tracks, lines 64-75
ActiveTracks(trks, maxAge, nInit) ==
    LET act == SelectSeq(trks, LAMBDA t : IsActive(t, maxAge, nInit))
    IN  [i \in 1..Len(act) |->
            [track_id |-> act[i].track_id,
             bbox |-> act[i].bbox,
             confidence |-> act[i].confidence,
             class_name |-> act[i].class_name,
             center |-> act[i].center]]

(***************************************************************************)
(* ROIManager                                                              *)
(***************************************************************************)
LineThreshold == 100
LineOffset == 30
MaxTrackArg == 2

\* __init__, lines 13-17, and reset_counts, lines 332-336
EmptyCounts == [total_in |-> 0, total_out |-> 0, by_type |-> [c \in {} |-> 0]]

SeqMin(s) == CHOOSE v \in { s[i] : i \in 1..Len(s) } : \A i \in 1..Len(s) : v <= s[i]
SeqMax(s) == CHOOSE v \in { s[i] : i \in 1..Len(s) } : \A i \in 1..Len(s) : v >= s[i]

\* Python's int() of the float n2 / 2: it truncates toward zero
IntOfHalf(n2) == IF n2 >= 0 THEN n2 \div 2 ELSE -((-n2) \div 2)

\* a variant of _generate_counting_lines with the two offsets exchanged
GenerateCountingLinesSwapped(points, lines) ==
    IF Len(points) < 3 THEN lines
    ELSE LET min_x == SeqMin([i \in 1..Len(points) |-> points[i][1]])
             max_x == SeqMax([i \in 1..Len(points) |-> points[i][1]])
             min_y == SeqMin([i \in 1..Len(points) |-> points[i][2]])
             max_y == SeqMax([i \in 1..Len(points) |-> points[i][2]])
             line1_y == IntOfHalf(min_y + max_y + 2 * LineOffset)
             line2_y == IntOfHalf(min_y + max_y - 2 * LineOffset)
         IN  << [start |-> <<min_x, line1_y>>, end |-> <<max_x, line1_y>>, type |-> "entry"],
                [start |-> <<min_x, line2_y>>, end |-> <<max_x, line2_y>>, type |-> "exit"] >>

(***************************************************************************)
(* _generate_counting_lines: two horizontal lines across the polygon's     *)
(* bounding box, 30 above and 30 below its vertical center.  With fewer    *)
(* than 3 points it returns at once and the lines stay as they are.        *)
(***************************************************************************)
GenerateCountingLines(points, lines) ==
    IF Len(points) < 3 THEN lines
    ELSE LET min_x == SeqMin([i \in 1..Len(points) |-> points[i][1]])
             max_x == SeqMax([i \in 1..Len(points) |-> points[i][1]])
             min_y == SeqMin([i \in 1..Len(points) |-> points[i][2]])
             max_y == SeqMax([i \in 1..Len(points) |-> points[i][2]])
             line1_y == IntOfHalf(min_y + max_y - 2 * LineOffset)
             line2_y == IntOfHalf(min_y + max_y + 2 * LineOffset)
         IN  << [start |-> <<min_x, line1_y>>, end |-> <<max_x, line1_y>>, type |-> "entry"],
                [start |-> <<min_x, line2_y>>, end |-> <<max_x, line2_y>>, type |-> "exit"] >>

(***************************************************************************)
(* _point_to_line_distance: abs(A*x + B*y + C) / sqrt(A^2 + B^2).  The     *)
(* point is a doubled center, so the distance is num / (2 * sqrt(den2));   *)
(* with den2 = 0 the division is by the numpy float 0.0 and the result is  *)
(* nan or inf, with a warning and no exception.                            *)
(***************************************************************************)
PointToLineDistance(point, line_start, line_end) ==
    LET A == line_end[2] - line_start[2]
        B == line_start[1] - line_end[1]
        C == line_end[1] * line_start[2] - line_start[1] * line_end[2]
        n == A * point[1] + B * point[2] + 2 * C
    IN  [num |-> IF n >= 0 THEN n ELSE -n, den2 |-> A * A + B * B]

\* a variant of lines 215 and 118 that takes the distance to a line of
\* length zero as 0
DistanceBelowZeroLength(distance, threshold) ==
    IF distance.den2 = 0 THEN 0 < threshold
    ELSE distance.num * distance.num < 4 * threshold * threshold * distance.den2

\* a variant of line 118 with <= in place of <
DistanceAtMost(distance, threshold) ==
    /\ distance.den2 # 0
    /\ distance.num * distance.num <= 4 * threshold * threshold * distance.den2

\* "distance < self.line_threshold"; a comparison with nan or inf is False
DistanceBelow(distance, threshold) ==
    /\ distance.den2 # 0
    /\ distance.num * distance.num < 4 * threshold * threshold * distance.den2

\* a variant of lines 113-118 that only takes a line when the center lies
\* within the line's horizontal extent
FirstNearLineWithinExtent(lines, center_point) ==
    LET near == { i \in 1..Len(lines) :
                    /\ 2 * lines[i].start[1] <= center_point[1]
                    /\ center_point[1] <= 2 * lines[i].end[1]
                    /\ DistanceBelow(PointToLineDistance(center_point, lines[i].start,
                                                         lines[i].end), LineThreshold) }
    IN  IF near = {} THEN 0 ELSE CHOOSE i \in near : \A k \in near : i <= k

\* a variant of lines 113-118 that takes the last line that is near enough
LastNearLine(lines, center_point) ==
    LET near == { i \in 1..Len(lines) :
                    DistanceBelow(PointToLineDistance(center_point, lines[i].start,
                                                      lines[i].end), LineThreshold) }
    IN  IF near = {} THEN 0 ELSE CHOOSE i \in near : \A k \in near : i >= k

\* lines 113-118: the index of the first line that is near enough, 0 if none
FirstNearLine(lines, center_point) ==
    LET near == { i \in 1..Len(lines) :
                    DistanceBelow(PointToLineDistance(center_point, lines[i].start,
                                                      lines[i].end), LineThreshold) }
    IN  IF near = {} THEN 0 ELSE CHOOSE i \in near : \A k \in near : i <= k

\* a variant of lines 119-125 with the two directions exchanged
CrossingDirectionSwapped(line) == IF line.type = "entry" THEN "out" ELSE "in"

\* lines 119-125
CrossingDirection(line) == IF line.type = "entry" THEN "in" ELSE "out"

\* a variant of lines 119-125 that labels every crossing with the entry boundary
LineTypeAlwaysEntry(line) == "entry"

\* lines 119-125
LineType(line) == IF line.type = "entry" THEN "entry" ELSE "exit"

\* a variant of lines 130-143 that leaves the per-type counts of a known type alone
CountCrossingTotalsOnly(counts, vehicle_type, crossing_direction) ==
    [total_in |-> IF crossing_direction = "in"
                  THEN counts.total_in + 1 ELSE counts.total_in,
     total_out |-> IF crossing_direction = "in"
                   THEN counts.total_out ELSE counts.total_out + 1,
     by_type |-> [c \in DOMAIN counts.by_type \cup {vehicle_type} |->
                     IF c \in DOMAIN counts.by_type THEN counts.by_type[c]
                     ELSE IF crossing_direction = "in" THEN [in |-> 1, out |-> 0]
                     ELSE [in |-> 0, out |-> 1]]]

\* lines 130-143
CountCrossing(counts, vehicle_type, crossing_direction) ==
    LET old == IF vehicle_type \in DOMAIN counts.by_type
               THEN counts.by_type[vehicle_type]
               ELSE [in |-> 0, out |-> 0]
        new == IF crossing_direction = "in"
               THEN [old EXCEPT !.in = @ + 1]
               ELSE [old EXCEPT !.out = @ + 1]
    IN  [total_in |-> IF crossing_direction = "in"
                      THEN counts.total_in + 1 ELSE counts.total_in,
         total_out |-> IF crossing_direction = "in"
                       THEN counts.total_out ELSE counts.total_out + 1,
         by_type |-> [c \in DOMAIN counts.by_type \cup {vehicle_type} |->
                         IF c = vehicle_type THEN new ELSE counts.by_type[c]]]

\* _log_crossing, lines 229-235: the keys of the record in the order of the
\* dict literal, which is the column order of the DataFrame of _save_logs
LogEntryFields == <<"timestamp", "track_id", "vehicle_type", "direction", "line_type">>

\* _log_crossing, lines 228-235; the timestamp is the wall clock's, left abstract
LogEntry(track_id, vehicle_type, direction, line_type) ==
    [timestamp |-> "now",
     track_id |-> track_id,
     vehicle_type |-> vehicle_type,
     direction |-> direction,
     line_type |-> line_type]

NoCrossing == <<FALSE, None, None>>

\* a variant of check_vehicle_crossing without the already-counted test
CrossingLineNoGuard(lines, crossed, track_id, center_point) ==
    IF Len(lines) = 0 THEN 0
    ELSE FirstNearLine(lines, center_point)

\* the guard of lines 105-110 and the search of lines 113-118
CrossingLine(lines, crossed, track_id, center_point) ==
    IF Len(lines) = 0 THEN 0
    ELSE IF track_id \in crossed THEN 0
    ELSE FirstNearLine(lines, center_point)

NoCall == [op |-> "init"]

TrackerInit ==
    /\ max_age \in { CtorOr(a, DefaultMaxAge) : a \in MaxAgeArgs }
    /\ n_init \in { CtorOr(a, DefaultNInit) : a \in NInitArgs }
    /\ tracks = <<>>
    /\ next_id = 1
    /\ track_history = [t \in {} |-> <<>>]
    /\ frame_count = 0
    /\ issued = {}

RoiInit ==
    /\ roi_points = <<>>
    /\ counting_lines = <<>>
    /\ vehicle_counts = EmptyCounts
    /\ crossed_vehicles = {}
    /\ entry_log = <<>>
    /\ exit_log = <<>>

RestInit ==
    /\ frame_tracks = <<>>
    /\ scenario_pos = 0
    /\ processing_status = [j \in {} |-> None]
    /\ jobs = [j \in {} |-> None]
    /\ thread = None

Init ==
    /\ TrackerInit
    /\ RoiInit
    /\ RestInit
    /\ last = NoCall

(***************************************************************************)
(* update_tracks(detections, frame)                                        *)
(***************************************************************************)
UpdateTracks(detections) ==
    \E current \in {ConvertDetections(detections)} :
    \E upd \in {UpdateExistingTracks(tracks, track_history, current, frame_count + 1)} :
    \E cre \in {CreateNewTracks(upd.tracks, next_id, current)} :
    \E rem \in {RemoveOldTracks(cre.tracks, upd.track_history, max_age)} :
        /\ cre.next_id - 1 <= MaxId
        /\ frame_count' = frame_count + 1
        /\ tracks' = rem.tracks
        /\ track_history' = rem.track_history
        /\ next_id' = cre.next_id
        /\ issued' = issued \cup (next_id..(cre.next_id - 1))
        /\ last' = [op |-> "update_tracks",
                    detections |-> current,
                    active_tracks |-> ActiveTracks(rem.tracks, max_age, n_init)]
        /\ UNCHANGED <<max_age, n_init>>

\* VehicleTracker.reset
ResetTracker ==
    /\ tracks' = <<>>
    /\ next_id' = 1
    /\ track_history' = [t \in {} |-> <<>>]
    /\ frame_count' = 0

Reset ==
    /\ ResetTracker
    /\ last' = [op |-> "reset"]
    /\ UNCHANGED <<max_age, n_init, issued>>

\* a variant of reset_counts that forgets to clear the counted identities and the logs
ResetCountsKeepLedger ==
    /\ vehicle_counts' = EmptyCounts
    /\ crossed_vehicles' = crossed_vehicles
    /\ entry_log' = entry_log
    /\ exit_log' = exit_log

\* ROIManager.reset_counts
ResetCountsEffect ==
    /\ vehicle_counts' = EmptyCounts
    /\ crossed_vehicles' = {}
    /\ entry_log' = <<>>
    /\ exit_log' = <<>>

ResetCounts ==
    /\ ResetCountsEffect
    /\ last' = [op |-> "reset_counts"]
    /\ UNCHANGED <<roi_points, counting_lines>>

\* a variant of set_roi that stores the points before it validates them
SetRoiAssignFirst(points) ==
    IF Len(points) < 3
    THEN /\ roi_points' = points
         /\ last' = [op |-> "set_roi", points |-> points, result |-> "ValueError"]
         /\ UNCHANGED <<counting_lines, vehicle_counts, crossed_vehicles, entry_log, exit_log>>
    ELSE /\ roi_points' = points
         /\ ResetCountsEffect
         /\ counting_lines' = GenerateCountingLines(points, counting_lines)
         /\ last' = [op |-> "set_roi", points |-> points, result |-> "ok"]

(***************************************************************************)
(* set_roi(points): a ValueError with fewer than 3 points, raised before   *)
(* anything is assigned.                                                   *)
(***************************************************************************)
SetRoi(points) ==
    IF Len(points) < 3
    THEN /\ last' = [op |-> "set_roi", points |-> points, result |-> "ValueError"]
         /\ UNCHANGED roiVars
    ELSE /\ roi_points' = points
         /\ ResetCountsEffect
         /\ counting_lines' = GenerateCountingLines(points, counting_lines)
         /\ last' = [op |-> "set_roi", points |-> points, result |-> "ok"]

\* a variant of check_vehicle_crossing that counts only a track with a direction
CheckVehicleCrossingByDirection(track_id, center_point, direction, vehicle_type) ==
    \E i \in {CrossingLine(counting_lines, crossed_vehicles, track_id, center_point)} :
        IF i = 0 \/ direction = None
        THEN /\ last' = [op |-> "check_vehicle_crossing", track_id |-> track_id,
                         center_point |-> center_point, direction |-> direction,
                         vehicle_type |-> vehicle_type, result |-> NoCrossing]
             /\ UNCHANGED roiVars
        ELSE \E crossing_direction \in {CrossingDirection(counting_lines[i])} :
             \E line_type \in {LineType(counting_lines[i])} :
             /\ crossed_vehicles' = crossed_vehicles \cup {track_id}
             /\ vehicle_counts' = CountCrossing(vehicle_counts, vehicle_type,
                                                crossing_direction)
             /\ entry_log' = IF crossing_direction = "in"
                             THEN Append(entry_log, LogEntry(track_id, vehicle_type,
                                                             crossing_direction, line_type))
                             ELSE entry_log
             /\ exit_log' = IF crossing_direction = "in"
                            THEN exit_log
                            ELSE Append(exit_log, LogEntry(track_id, vehicle_type,
                                                           crossing_direction, line_type))
             /\ last' = [op |-> "check_vehicle_crossing", track_id |-> track_id,
                         center_point |-> center_point, direction |-> direction,
                         vehicle_type |-> vehicle_type,
                         result |-> <<TRUE, crossing_direction, line_type>>]
             /\ UNCHANGED <<roi_points, counting_lines>>

(***************************************************************************)
(* check_vehicle_crossing(track_id, center_point, direction, vehicle_type) *)
(***************************************************************************)
CheckVehicleCrossing(track_id, center_point, direction, vehicle_type) ==
    \E i \in {CrossingLine(counting_lines, crossed_vehicles, track_id, center_point)} :
        IF i = 0
        THEN /\ last' = [op |-> "check_vehicle_crossing", track_id |-> track_id,
                         center_point |-> center_point, direction |-> direction,
                         vehicle_type |-> vehicle_type, result |-> NoCrossing]
             /\ UNCHANGED roiVars
        ELSE \E crossing_direction \in {CrossingDirection(counting_lines[i])} :
             \E line_type \in {LineType(counting_lines[i])} :
             /\ crossed_vehicles' = crossed_vehicles \cup {track_id}
             /\ vehicle_counts' = CountCrossing(vehicle_counts, vehicle_type,
                                                crossing_direction)
             /\ entry_log' = IF crossing_direction = "in"
                             THEN Append(entry_log, LogEntry(track_id, vehicle_type,
                                                             crossing_direction, line_type))
                             ELSE entry_log
             /\ exit_log' = IF crossing_direction = "in"
                            THEN exit_log
                            ELSE Append(exit_log, LogEntry(track_id, vehicle_type,
                                                           crossing_direction, line_type))
             /\ last' = [op |-> "check_vehicle_crossing", track_id |-> track_id,
                         center_point |-> center_point, direction |-> direction,
                         vehicle_type |-> vehicle_type,
                         result |-> <<TRUE, crossing_direction, line_type>>]
             /\ UNCHANGED <<roi_points, counting_lines>>

(***************************************************************************)
(* The start of a job: process_video, lines 50-53, and process_rtsp_stream,*)
(* lines 245-248, reset the tracker and the counts.                        *)
(***************************************************************************)
StartJob ==
    /\ ResetTracker
    /\ ResetCountsEffect
    /\ last' = [op |-> "start_job"]
    /\ UNCHANGED <<max_age, n_init, issued, roi_points, counting_lines>>
    /\ UNCHANGED restVars

(***************************************************************************)
(* The tracker on its own: any detection lists, resets and job starts.     *)
(***************************************************************************)
DoUpdateTracks ==
    /\ frame_count < MaxFrames
    /\ \E detections \in DetectionLists : UpdateTracks(detections)
    /\ UNCHANGED roiVars
    /\ UNCHANGED restVars

DoReset ==
    /\ Reset
    /\ UNCHANGED roiVars
    /\ UNCHANGED restVars

TrackerNext ==
    \/ DoUpdateTracks
    \/ DoReset
    \/ StartJob

SpecTracker == Init /\ [][TrackerNext]_vars

(***************************************************************************)
(* The ROI manager on its own: any polygon, any crossing checks.           *)
(***************************************************************************)
Square == << <<0, 0>>, <<100, 0>>, <<100, 100>>, <<0, 100>> >>
Polygons ==
    { <<>>,
      << <<0, 0>>, <<100, 0>> >>,
      Square,
      << <<5, 0>>, <<5, 10>>, <<5, 20>> >>,
      << <<0, -75>>, <<2, 0>>, <<4, -10>> >> }

\* doubled centers: (50, 50), (50, 120), (200, 120), (50, 180)
CenterPoints == { <<100, 100>>, <<100, 240>>, <<400, 240>>, <<100, 360>> }
Directions == { None, <<0, 1>> }
VehicleTypes == { "car", "truck" }

DoSetRoi ==
    /\ \E points \in Polygons : SetRoi(points)
    /\ UNCHANGED trackerVars
    /\ UNCHANGED restVars

DoResetCounts ==
    /\ ResetCounts
    /\ UNCHANGED trackerVars
    /\ UNCHANGED restVars

DoCheckVehicleCrossing ==
    /\ \E track_id \in 1..MaxTrackArg, center_point \in CenterPoints,
          direction \in Directions, vehicle_type \in VehicleTypes :
            CheckVehicleCrossing(track_id, center_point, direction, vehicle_type)
    /\ UNCHANGED trackerVars
    /\ UNCHANGED restVars

RoiNext ==
    \/ DoSetRoi
    \/ DoResetCounts
    \/ DoCheckVehicleCrossing

SpecRoi == Init /\ [][RoiNext]_vars

(***************************************************************************)
(* VehicleDetector.filter_detections_by_size and                           *)
(* VehicleTracker.get_track_direction                                      *)
(***************************************************************************)
\* filter_detections_by_size, line 125
BoxArea(bbox) == (bbox[3] - bbox[1]) * (bbox[4] - bbox[2])

\* a variant of line 126 that keeps only the areas above min_area
FilterDetectionsAbove(detections, min_area) ==
    SelectSeq(detections, LAMBDA d : BoxArea(d.bbox) > min_area)

\* filter_detections_by_size: the detections with area >= min_area, in order
FilterDetectionsBySize(detections, min_area) ==
    SelectSeq(detections, LAMBDA d : BoxArea(d.bbox) >= min_area)

Abs(n) == IF n >= 0 THEN n ELSE -n

RECURSIVE Gcd(_, _)
Gcd(a, b) == IF b = 0 THEN a ELSE Gcd(b, a % b)

\* get_track_direction, lines 286-294: the sum of the steps between the entries
RECURSIVE SumSteps(_, _, _)
SumSteps(recent, i, axis) ==
    IF i > Len(recent) THEN 0
    ELSE (recent[i].center[axis] - recent[i - 1].center[axis])
         + SumSteps(recent, i + 1, axis)

\* a variant of get_track_direction that looks at the last step only
GetTrackDirectionLastStep(history, track_id) ==
    IF track_id \notin DOMAIN history THEN None
    ELSE IF Len(history[track_id]) < 2 THEN None
    ELSE LET h == history[track_id]
             recent == SubSeq(h, Len(h) - 1, Len(h))
             dx_total == SumSteps(recent, 2, 1)
             dy_total == SumSteps(recent, 2, 2)
             g == Gcd(Abs(dx_total), Abs(dy_total))
         IN  IF g = 0 THEN None ELSE <<dx_total \div g, dy_total \div g>>

(***************************************************************************)
(* get_track_direction: None with fewer than 2 history entries or a zero   *)
(* average step, else the unit vector along the average step over the last *)
(* 3 entries.  The unit vector along (dx, dy) is written as the pair       *)
(* <<dx, dy>> divided by its greatest common divisor, which is the same    *)
(* for two steps exactly when their unit vectors are the same.             *)
(***************************************************************************)
GetTrackDirection(history, track_id) ==
    IF track_id \notin DOMAIN history THEN None
    ELSE IF Len(history[track_id]) < 2 THEN None
    ELSE LET h == history[track_id]
             recent == SubSeq(h, Max(1, Len(h) - 2), Len(h))
             dx_total == SumSteps(recent, 2, 1)
             dy_total == SumSteps(recent, 2, 2)
             g == Gcd(Abs(dx_total), Abs(dy_total))
         IN  IF g = 0 THEN None ELSE <<dx_total \div g, dy_total \div g>>

(***************************************************************************)
(* VideoProcessor.process_frame                                            *)
(***************************************************************************)
ProcessMinArea == 500

\* the fields of the ROI manager that check_vehicle_crossing reads and writes
RoiState ==
    [counting_lines |-> counting_lines,
     crossed_vehicles |-> crossed_vehicles,
     vehicle_counts |-> vehicle_counts,
     entry_log |-> entry_log,
     exit_log |-> exit_log]

\* check_vehicle_crossing as a function of the ROI manager's fields: the
\* fields after the call and the tuple it returns
CrossingOutcome(roi, track_id, center_point, direction, vehicle_type) ==
    LET i == CrossingLine(roi.counting_lines, roi.crossed_vehicles, track_id, center_point)
    IN  IF i = 0 THEN [roi |-> roi, result |-> NoCrossing]
        ELSE LET crossing_direction == CrossingDirection(roi.counting_lines[i])
                 line_type == LineType(roi.counting_lines[i])
                 entry == LogEntry(track_id, vehicle_type, crossing_direction, line_type)
             IN  [roi |-> [counting_lines |-> roi.counting_lines,
                           crossed_vehicles |-> roi.crossed_vehicles \cup {track_id},
                           vehicle_counts |-> CountCrossing(roi.vehicle_counts, vehicle_type,
                                                            crossing_direction),
                           entry_log |-> IF crossing_direction = "in"
                                         THEN Append(roi.entry_log, entry)
                                         ELSE roi.entry_log,
                           exit_log |-> IF crossing_direction = "in"
                                        THEN roi.exit_log
                                        ELSE Append(roi.exit_log, entry)],
                  result |-> <<TRUE, crossing_direction, line_type>>]

\* process_frame, lines 126-129: the track with the crossing information added
AnnotateTrack(track, result) ==
    [track_id |-> track.track_id,
     bbox |-> track.bbox,
     confidence |-> track.confidence,
     class_name |-> track.class_name,
     center |-> track.center,
     is_crossing |-> result[1],
     crossing_direction |-> result[2],
     line_type |-> result[3]]

\* a variant of the loop of lines 113-129 that stops after its first track
RECURSIVE CheckTracksFirstOnly(_, _, _, _, _)
CheckTracksFirstOnly(roi, trks, history, k, done) ==
    IF k > Len(trks) \/ k > 1 THEN [roi |-> roi, tracks |-> done]
    ELSE LET t == trks[k]
             o == CrossingOutcome(roi, t.track_id, t.center,
                                  GetTrackDirection(history, t.track_id), t.class_name)
         IN  CheckTracksFirstOnly(o.roi, trks, history, k + 1,
                                  Append(done, AnnotateTrack(t, o.result)))

\* process_frame, lines 113-129: the crossing check of every returned track, in order
RECURSIVE CheckTracks(_, _, _, _, _)
CheckTracks(roi, trks, history, k, done) ==
    IF k > Len(trks) THEN [roi |-> roi, tracks |-> done]
    ELSE LET t == trks[k]
             o == CrossingOutcome(roi, t.track_id, t.center,
                                  GetTrackDirection(history, t.track_id), t.class_name)
         IN  CheckTracks(o.roi, trks, history, k + 1,
                         Append(done, AnnotateTrack(t, o.result)))

(***************************************************************************)
(* process_frame(frame): the detector's output for the frame is filtered   *)
(* by size, handed to the tracker, and every returned track is checked     *)
(* against the counting lines.                                             *)
(***************************************************************************)
ProcessFrame(raw_detections) ==
    /\ UpdateTracks(FilterDetectionsBySize(raw_detections, ProcessMinArea))
    /\ \E chk \in {CheckTracks(RoiState, last'.active_tracks, track_history', 1, <<>>)} :
        /\ crossed_vehicles' = chk.roi.crossed_vehicles
        /\ vehicle_counts' = chk.roi.vehicle_counts
        /\ entry_log' = chk.roi.entry_log
        /\ exit_log' = chk.roi.exit_log
        /\ frame_tracks' = chk.tracks
    /\ UNCHANGED <<roi_points, counting_lines>>

(***************************************************************************)
(* One job at a time on the shared tracker and ROI manager: the region is  *)
(* set and the tracker and counts are reset (process_video_thread, line    *)
(* 133, process_video, lines 50-53), then frames are processed.            *)
(*                                                                         *)
(* The scenario is one car seen in 17 consecutive frames, its center       *)
(* moving down from y = 40 to y = 200 in steps of 10, in a box 10 wide and *)
(* 60 high (area 600, IoU 5/7 from frame to frame).                        *)
(***************************************************************************)
ScenarioCentersY == [k \in 1..17 |-> 30 + 10 * k]

ScenarioFrame(k) ==
    << [bbox |-> <<5, ScenarioCentersY[k] - 30, 15, ScenarioCentersY[k] + 30>>,
        confidence |-> 9, class_id |-> 2, class_name |-> "car"] >>

\* regions 20 wide and 240, 400 and 720 high: entry and exit boundaries at
\* y = 90 and 150, at 170 and 230, at 330 and 390
PipeRegions ==
    { << <<0, 0>>, <<20, 0>>, <<20, 240>>, <<0, 240>> >>,
      << <<0, 0>>, <<20, 0>>, <<20, 400>>, <<0, 400>> >>,
      << <<0, 0>>, <<20, 0>>, <<20, 720>>, <<0, 720>> >> }

\* a car standing at center y = 100, a truck standing at center y = 200, and
\* a box of area 100 that the size filter drops
DetNear == [bbox |-> <<5, 70, 15, 130>>, confidence |-> 8, class_id |-> 2, class_name |-> "car"]
DetFar == [bbox |-> <<5, 170, 15, 230>>, confidence |-> 7, class_id |-> 7, class_name |-> "truck"]
DetTiny == [bbox |-> <<5, 70, 15, 80>>, confidence |-> 6, class_id |-> 2, class_name |-> "car"]

PipeFrames == { <<>>, <<DetNear>>, <<DetFar, DetNear>>, <<DetTiny, DetFar>> }

\* app.py, initialize_models: VehicleTracker() and ROIManager() without arguments
PipelineInit ==
    /\ max_age = CtorOr(NoArg, DefaultMaxAge)
    /\ n_init = CtorOr(NoArg, DefaultNInit)
    /\ tracks = <<>>
    /\ next_id = 1
    /\ track_history = [t \in {} |-> <<>>]
    /\ frame_count = 0
    /\ issued = {}
    /\ RoiInit
    /\ RestInit
    /\ last = NoCall

PipeStart ==
    \E points \in PipeRegions :
        /\ Len(points) >= 3
        /\ SetRoi(points)
        /\ ResetTracker
        /\ frame_tracks' = <<>>
        /\ scenario_pos' = 0
        /\ UNCHANGED <<max_age, n_init, issued, processing_status, jobs, thread>>

ProcessScenarioFrame ==
    /\ roi_points # <<>>
    /\ scenario_pos = frame_count
    /\ scenario_pos < Len(ScenarioCentersY)
    /\ ProcessFrame(ScenarioFrame(scenario_pos + 1))
    /\ scenario_pos' = scenario_pos + 1
    /\ UNCHANGED <<processing_status, jobs, thread>>

ProcessAnyFrame ==
    /\ roi_points # <<>>
    /\ frame_count < MaxFrames
    /\ \E raw_detections \in PipeFrames : ProcessFrame(raw_detections)
    /\ scenario_pos' = -1
    /\ UNCHANGED <<processing_status, jobs, thread>>

PipelineNext ==
    \/ PipeStart
    \/ ProcessScenarioFrame
    \/ ProcessAnyFrame

SpecPipeline == PipelineInit /\ [][PipelineNext]_vars

(***************************************************************************)
(* app.py: the jobs.  POST /process stores a status record and starts a    *)
(* thread that runs process_video_thread on the module's one detector,     *)
(* tracker and roi_manager.  A step of the model is one of the blocks of   *)
(* that thread; the threads interleave between the blocks.                 *)
(*                                                                         *)
(* A message is a tuple: its fixed text and the values formatted into it.  *)
(* The value stored under a status record's key 'counts' is the dict       *)
(* object get_counts returned: "present" tells whether the key exists,     *)
(* "live" whether that object still is roi_manager.vehicle_counts,         *)
(* "returned" is its content when it was returned and "frozen" its content *)
(* when reset_counts replaced it.                                          *)
(***************************************************************************)
MaxJobFrames == 3

Jobs == { "job1", "job2" }

ShortRoi == << <<0, 0>>, <<20, 0>> >>
JobRegion == << <<0, 0>>, <<20, 0>>, <<20, 240>>, <<0, 240>> >>

\* a video: whether it opens, the frame count it reports and the frames it yields
Videos ==
    { [openable |-> FALSE, total_frames |-> 0, frames |-> 0] }
    \cup { [openable |-> TRUE, total_frames |-> n, frames |-> n] : n \in 0..MaxJobFrames }
    \cup { [openable |-> TRUE, total_frames |-> MaxJobFrames - 1, frames |-> MaxJobFrames] }

\* the detector's output for every frame of a video
JobFrame == <<DetNear>>

\* process_video, line 70: int((frame_count / total_frames) * 100), which for
\* the frame counts of these videos is the integer quotient
Progress(frameCount, totalFrames) == (frameCount * 100) \div totalFrames

\* reset_counts binds vehicle_counts to a new dict: a status record that
\* holds the old dict keeps the content the dict had
DetachCounts(ps) ==
    [j \in DOMAIN ps |->
        IF ps[j].counts.present /\ ps[j].counts.live
        THEN [ps[j] EXCEPT !.counts.live = FALSE, !.counts.frozen = vehicle_counts]
        ELSE ps[j]]

\* roi_manager.get_counts(): "return self.vehicle_counts", the dict itself
GetCounts ==
    [present |-> TRUE, live |-> TRUE, returned |-> vehicle_counts, frozen |-> vehicle_counts]

\* a status record without the key 'counts'
NoCounts ==
    [present |-> FALSE, live |-> FALSE, returned |-> EmptyCounts, frozen |-> EmptyCounts]

\* what a reader of the stored value sees now
CountsSeen(c) == IF c.live THEN vehicle_counts ELSE c.frozen

\* POST /process, lines 101-116
Submit(j, points, video) ==
    /\ j \notin DOMAIN jobs
    /\ processing_status' =
         [k \in DOMAIN processing_status \cup {j} |->
            IF k = j
            THEN [status |-> "processing", progress |-> 0,
                  message |-> <<"Starting processing...">>,
                  output_file |-> None, log_file |-> None, counts |-> NoCounts]
            ELSE processing_status[k]]
    /\ jobs' = [k \in DOMAIN jobs \cup {j} |->
                  IF k = j
                  THEN [pc |-> "thread", roi_points |-> points, video |-> video,
                        frame_count |-> 0]
                  ELSE jobs[k]]
    /\ thread' = j
    /\ UNCHANGED <<trackerVars, roiVars, frame_tracks, scenario_pos, last>>

\* a variant of lines 150-154 that stores the status 'failed'
FailedStatusFailed(st, text) ==
    [st EXCEPT !.status = "failed", !.message = <<"Processing failed", text>>, !.progress = 0]

\* process_video_thread, lines 148-154: the handler of any exception
FailedStatus(st, text) ==
    [st EXCEPT !.status = "error", !.message = <<"Processing failed", text>>, !.progress = 0]

SetPc(j, pc) == [jobs EXCEPT ![j].pc = pc]

\* process_video_thread, lines 121-133: set_roi on the shared roi_manager;
\* its ValueError goes to the handler of lines 148-154
ThreadSetRoi(j) ==
    /\ j \in DOMAIN jobs
    /\ jobs[j].pc = "thread"
    /\ SetRoi(jobs[j].roi_points)
    /\ IF Len(jobs[j].roi_points) < 3
       THEN /\ processing_status' =
                 [processing_status EXCEPT
                    ![j] = FailedStatus(@, "At least 3 points required for ROI polygon")]
            /\ jobs' = SetPc(j, "done")
       ELSE /\ processing_status' = DetachCounts(processing_status)
            /\ jobs' = SetPc(j, "process")
    /\ thread' = j
    /\ UNCHANGED <<trackerVars, frame_tracks, scenario_pos>>

\* a variant of process_video without the isOpened test of lines 37-38
OpenSourceNoCheck(j) ==
    /\ j \in DOMAIN jobs
    /\ jobs[j].pc = "process"
    /\ jobs' = [jobs EXCEPT ![j].pc = "loop", ![j].frame_count = 0]
    /\ ResetTracker
    /\ ResetCountsEffect
    /\ processing_status' = DetachCounts(processing_status)
    /\ thread' = j
    /\ UNCHANGED <<max_age, n_init, issued, roi_points, counting_lines>>
    /\ UNCHANGED <<frame_tracks, scenario_pos, last>>

\* process_video, lines 34-53: the source is opened; if that fails the
\* ValueError passes the handler of lines 88-91, else the counters are reset
OpenSource(j) ==
    /\ j \in DOMAIN jobs
    /\ jobs[j].pc = "process"
    /\ IF ~jobs[j].video.openable
       THEN /\ processing_status' =
                 [processing_status EXCEPT
                    ![j].status = "error",
                    ![j].message = <<"Error during processing",
                                     "Could not open video source">>]
            /\ jobs' = SetPc(j, "raised")
            /\ UNCHANGED <<trackerVars, roiVars>>
       ELSE /\ jobs' = [jobs EXCEPT ![j].pc = "loop", ![j].frame_count = 0]
            /\ ResetTracker
            /\ ResetCountsEffect
            /\ processing_status' = DetachCounts(processing_status)
            /\ UNCHANGED <<max_age, n_init, issued, roi_points, counting_lines>>
    /\ thread' = j
    /\ UNCHANGED <<frame_tracks, scenario_pos, last>>

\* process_video, lines 67-72: the status after a frame
FrameStatus(st, frameCount, totalFrames) ==
    IF totalFrames > 0
    THEN [st EXCEPT !.progress = Progress(frameCount, totalFrames),
                    !.message = <<"Processing frame", frameCount, totalFrames>>]
    ELSE st

\* process_video, lines 56-76: one turn of the loop.  The periodic
\* cleanup_old_tracks of line 75 needs 100 frames, more than a video has here.
ReadFrame(j) ==
    /\ j \in DOMAIN jobs
    /\ jobs[j].pc = "loop"
    /\ IF jobs[j].frame_count >= jobs[j].video.frames
       THEN /\ jobs' = SetPc(j, "finish")
            /\ UNCHANGED <<trackerVars, roiVars, frame_tracks, processing_status, last>>
       ELSE /\ ProcessFrame(JobFrame)
            /\ jobs' = [jobs EXCEPT ![j].frame_count = @ + 1]
            /\ processing_status' =
                 [processing_status EXCEPT
                    ![j] = FrameStatus(@, jobs[j].frame_count + 1,
                                       jobs[j].video.total_frames)]
    /\ thread' = j
    /\ UNCHANGED scenario_pos

\* process_video, lines 78-86: release, save the logs, the closing message
FinishVideo(j) ==
    /\ j \in DOMAIN jobs
    /\ jobs[j].pc = "finish"
    /\ processing_status' =
         [processing_status EXCEPT
            ![j].message = <<"Processing completed. Processed frames", jobs[j].frame_count>>]
    /\ jobs' = SetPc(j, "completing")
    /\ thread' = j
    /\ UNCHANGED <<trackerVars, roiVars, frame_tracks, scenario_pos, last>>

\* process_video_thread, lines 140-147
Complete(j) ==
    /\ j \in DOMAIN jobs
    /\ jobs[j].pc = "completing"
    /\ processing_status' =
         [processing_status EXCEPT
            ![j] = [status |-> "completed", progress |-> 100,
                    message |-> <<"Processing completed successfully">>,
                    output_file |-> "output_path", log_file |-> "log_path",
                    counts |-> GetCounts]]
    /\ jobs' = SetPc(j, "done")
    /\ thread' = j
    /\ UNCHANGED <<trackerVars, roiVars, frame_tracks, scenario_pos, last>>

\* process_video_thread, lines 148-154, for an exception raised in process_video
HandleError(j) ==
    /\ j \in DOMAIN jobs
    /\ jobs[j].pc = "raised"
    /\ processing_status' =
         [processing_status EXCEPT ![j] = FailedStatus(@, @.message[2])]
    /\ jobs' = SetPc(j, "done")
    /\ thread' = j
    /\ UNCHANGED <<trackerVars, roiVars, frame_tracks, scenario_pos, last>>

DoSubmit ==
    \E j \in Jobs, points \in {ShortRoi, JobRegion}, video \in Videos :
        Submit(j, points, video)

JobsNext ==
    \/ DoSubmit
    \/ \E j \in Jobs : ThreadSetRoi(j)
    \/ \E j \in Jobs : OpenSource(j)
    \/ \E j \in Jobs : ReadFrame(j)
    \/ \E j \in Jobs : FinishVideo(j)
    \/ \E j \in Jobs : Complete(j)
    \/ \E j \in Jobs : HandleError(j)

SpecJobs == PipelineInit /\ [][JobsNext]_vars

(***************************************************************************)
(* filter_detections_by_size on its own: any list of detections, well      *)
(* formed or not, and any of three positive thresholds.  The boxes have    *)
(* the areas 100, 500 and 1200, a box of no width, a box with x2 < x1 and  *)
(* a box with x2 < x1 and y2 < y1.                                         *)
(***************************************************************************)
FilterBoxes ==
    { <<0, 0, 10, 10>>, <<0, 0, 20, 25>>, <<0, 0, 30, 40>>,
      <<5, 5, 5, 20>>, <<20, 0, 0, 30>>, <<30, 40, 0, 0>> }

FilterDetections ==
    { [bbox |-> b, confidence |-> 9, class_id |-> 2, class_name |-> "car"] : b \in FilterBoxes }

FilterLists == UNION { [1..n -> FilterDetections] : n \in 0..MaxDets }

\* 1000 is the default of the parameter, 500 is what process_frame passes
MinAreas == { 100, 500, 1000 }

DoFilter ==
    /\ \E detections \in FilterLists, min_area \in MinAreas :
         last' = [op |-> "filter_detections_by_size",
                  detections |-> detections,
                  min_area |-> min_area,
                  result |-> FilterDetectionsBySize(detections, min_area)]
    /\ UNCHANGED <<trackerVars, roiVars, restVars>>

FilterNext == DoFilter

SpecFilter == Init /\ [][FilterNext]_vars

(***************************************************************************)
(* _calculate_iou on its own: any two boxes with corners on a small grid,  *)
(* well formed, degenerate or inverted.                                    *)
(***************************************************************************)
MaxCoordX == 3
MaxCoordY == 2

IouBoxes == { <<x1, y1, x2, y2>> : x1 \in 0..MaxCoordX, y1 \in 0..MaxCoordY,
                                   x2 \in 0..MaxCoordX, y2 \in 0..MaxCoordY }

IouInit ==
    /\ TrackerInit
    /\ RoiInit
    /\ RestInit
    /\ \E bbox1 \in IouBoxes, bbox2 \in IouBoxes :
         last = [op |-> "boxes", bbox1 |-> bbox1, bbox2 |-> bbox2]

DoCalculateIou ==
    /\ last.op = "boxes"
    /\ \E iou \in {CalculateIou(last.bbox1, last.bbox2)} :
         last' = [op |-> "_calculate_iou",
                  bbox1 |-> last.bbox1,
                  bbox2 |-> last.bbox2,
                  result |-> iou]
    /\ UNCHANGED <<trackerVars, roiVars, restVars>>

IouNext == DoCalculateIou

SpecIou == IouInit /\ [][IouNext]_vars

(***************************************************************************)
(* The tracker fed one detection per frame whose box may be degenerate or  *)
(* inverted: every box with corners in {0, 2}, a point, and a wider well   *)
(* formed box.                                                             *)
(***************************************************************************)
GeometryFrames == 2

GeometryBoxes ==
    { <<x1, y1, x2, y2>> : x1 \in {0, 2}, y1 \in {0, 2}, x2 \in {0, 2}, y2 \in {0, 2} }
        \cup { <<1, 1, 1, 1>>, <<0, 0, 3, 2>> }

GeometryDetection(bbox) == [bbox |-> bbox, confidence |-> 9, class_name |-> "car"]

DoUpdateGeometry ==
    /\ frame_count < GeometryFrames
    /\ \E bbox \in GeometryBoxes : UpdateTracks(<<GeometryDetection(bbox)>>)
    /\ UNCHANGED roiVars
    /\ UNCHANGED restVars

GeometryNext == DoUpdateGeometry

SpecGeometry == Init /\ [][GeometryNext]_vars

(***************************************************************************)
(* A stream job: process_video_thread with process_type 'rtsp', which runs *)
(* process_rtsp_stream.  app.py, line 138, passes no duration; the method  *)
(* takes one, and the job record holds the value it was called with.       *)
(* Time is the wall clock in whole seconds since start_time.  cap and out  *)
(* are the capture and the writer: "none" before they exist, then "open"   *)
(* (cap: "unopened" if isOpened() is false), then "released".  "saved" is  *)
(* the CSV file at log_path.                                               *)
(***************************************************************************)
MaxStreamFrames == 4
MaxTime == 3

StatusEvery == 30

Durations == { NoArg, 1, 2 }

\* a stream: whether it opens, the frames it yields before a read fails, and
\* the frame on which the detector raises (vehicle_detector.py, line 47: the
\* call of the YOLO model), 0 if it raises on none
Streams ==
    { [openable |-> FALSE, frames |-> 0, raises_at |-> 0] }
    \cup { [openable |-> TRUE, frames |-> n, raises_at |-> k] :
               n \in 0..MaxStreamFrames, k \in 0..MaxStreamFrames }

NoFile == [written |-> FALSE, rows |-> <<>>]

\* POST /process, lines 101-116, for a stream
StreamSubmit(j, stream, duration) ==
    /\ j \notin DOMAIN jobs
    /\ processing_status' =
         [k \in DOMAIN processing_status \cup {j} |->
            IF k = j
            THEN [status |-> "processing", progress |-> 0,
                  message |-> <<"Starting processing...">>,
                  output_file |-> None, log_file |-> None, counts |-> NoCounts]
            ELSE processing_status[k]]
    /\ jobs' = [k \in DOMAIN jobs \cup {j} |->
                  IF k = j
                  THEN [pc |-> "thread", roi_points |-> JobRegion, stream |-> stream,
                        duration |-> duration, elapsed |-> 0, frame_count |-> 0,
                        stop |-> "none", cap |-> "none", out |-> "none",
                        saved |-> NoFile]
                  ELSE jobs[k]]
    /\ thread' = j
    /\ UNCHANGED <<trackerVars, roiVars, frame_tracks, scenario_pos, last>>

\* process_rtsp_stream, lines 230-250: the stream is opened; if that fails the
\* ValueError passes the handler of lines 289-292, else the writer is made
\* and the counters are reset
OpenStream(j) ==
    /\ j \in DOMAIN jobs
    /\ jobs[j].pc = "process"
    /\ IF ~jobs[j].stream.openable
       THEN /\ processing_status' =
                 [processing_status EXCEPT
                    ![j].status = "error",
                    ![j].message = <<"Error during RTSP processing",
                                     "Could not open RTSP stream">>]
            /\ jobs' = [jobs EXCEPT ![j].pc = "raised", ![j].cap = "unopened"]
            /\ UNCHANGED <<trackerVars, roiVars>>
       ELSE /\ jobs' = [jobs EXCEPT ![j].pc = "loop", ![j].frame_count = 0,
                                    ![j].cap = "open", ![j].out = "open",
                                    ![j].elapsed = 0]
            /\ ResetTracker
            /\ ResetCountsEffect
            /\ processing_status' = DetachCounts(processing_status)
            /\ UNCHANGED <<max_age, n_init, issued, roi_points, counting_lines>>
    /\ thread' = j
    /\ UNCHANGED <<frame_tracks, scenario_pos, last>>

\* process_rtsp_stream, line 259: "duration and (time.time() - start_time) > duration"
DurationOver(duration, now) == duration # NoArg /\ now > duration

\* process_rtsp_stream, lines 270-273: the status after a frame
StreamStatus(st, frameCount, elapsed_time, duration) ==
    IF frameCount % StatusEvery = 0
    THEN [st EXCEPT !.progress = IF duration # NoArg
                                 THEN Min((elapsed_time * 100) \div duration, 99)
                                 ELSE 0,
                    !.message = <<"Processing RTSP stream - Frame", frameCount,
                                  elapsed_time>>]
    ELSE st

\* process_rtsp_stream, lines 262 and 289-292: process_frame raises in the
\* detector; the handler stores the error and raises again.  Nothing is
\* released: lines 279-281 are not reached and there is no finally clause.
StreamRaised(j, now) ==
    /\ processing_status' =
         [processing_status EXCEPT
            ![j].status = "error",
            ![j].message = <<"Error during RTSP processing", "detector failed">>]
    /\ jobs' = [jobs EXCEPT ![j].pc = "raised", ![j].elapsed = now]

\* a variant of the loop of process_rtsp_stream without the test of lines 259-260
StreamReadNoDurationCheck(j) ==
    /\ j \in DOMAIN jobs
    /\ jobs[j].pc = "loop"
    /\ \E now \in jobs[j].elapsed..MaxTime :
         IF jobs[j].frame_count >= jobs[j].stream.frames
         THEN /\ jobs' = [jobs EXCEPT ![j].pc = "finish", ![j].stop = "end"]
              /\ UNCHANGED <<trackerVars, roiVars, frame_tracks, processing_status, last>>
         ELSE IF jobs[j].stream.raises_at = jobs[j].frame_count + 1
         THEN /\ StreamRaised(j, now)
              /\ UNCHANGED <<trackerVars, roiVars, frame_tracks, last>>
         ELSE /\ ProcessFrame(JobFrame)
              /\ jobs' = [jobs EXCEPT ![j].frame_count = @ + 1, ![j].elapsed = now]
              /\ processing_status' =
                   [processing_status EXCEPT
                      ![j] = StreamStatus(@, jobs[j].frame_count + 1, now,
                                          jobs[j].duration)]
    /\ thread' = j
    /\ UNCHANGED scenario_pos

\* process_rtsp_stream, lines 253-277: one turn of the loop.  The read fails
\* at the end of the stream; "now" is the clock read by line 259; the frame
\* is then processed, which may raise.  The
\* periodic cleanup_old_tracks of line 276 needs 100 frames, more than a
\* stream has here.
StreamRead(j) ==
    /\ j \in DOMAIN jobs
    /\ jobs[j].pc = "loop"
    /\ \E now \in jobs[j].elapsed..MaxTime :
         IF jobs[j].frame_count >= jobs[j].stream.frames
         THEN /\ jobs' = [jobs EXCEPT ![j].pc = "finish", ![j].stop = "end"]
              /\ UNCHANGED <<trackerVars, roiVars, frame_tracks, processing_status, last>>
         ELSE IF DurationOver(jobs[j].duration, now)
         THEN /\ jobs' = [jobs EXCEPT ![j].pc = "finish", ![j].stop = "duration",
                                      ![j].elapsed = now]
              /\ UNCHANGED <<trackerVars, roiVars, frame_tracks, processing_status, last>>
         ELSE IF jobs[j].stream.raises_at = jobs[j].frame_count + 1
         THEN /\ StreamRaised(j, now)
              /\ UNCHANGED <<trackerVars, roiVars, frame_tracks, last>>
         ELSE /\ ProcessFrame(JobFrame)
              /\ jobs' = [jobs EXCEPT ![j].frame_count = @ + 1, ![j].elapsed = now]
              /\ processing_status' =
                   [processing_status EXCEPT
                      ![j] = StreamStatus(@, jobs[j].frame_count + 1, now,
                                          jobs[j].duration)]
    /\ thread' = j
    /\ UNCHANGED scenario_pos

\* _save_logs: the entry log followed by the exit log, written only if there
\* is a record
SaveLogs(file) ==
    IF entry_log \o exit_log # <<>>
    THEN [written |-> TRUE, rows |-> entry_log \o exit_log]
    ELSE file

\* process_rtsp_stream, lines 279-287: release, save the logs, the closing message
FinishStream(j) ==
    /\ j \in DOMAIN jobs
    /\ jobs[j].pc = "finish"
    /\ processing_status' =
         [processing_status EXCEPT
            ![j].message = <<"RTSP processing completed. Processed frames",
                             jobs[j].frame_count>>]
    /\ jobs' = [jobs EXCEPT ![j].pc = "completing", ![j].cap = "released",
                            ![j].out = "released", ![j].saved = SaveLogs(@)]
    /\ thread' = j
    /\ UNCHANGED <<trackerVars, roiVars, frame_tracks, scenario_pos, last>>

StreamJobs == { "job1" }

DoStreamSubmit ==
    \E j \in StreamJobs, stream \in Streams, duration \in Durations :
        StreamSubmit(j, stream, duration)

StreamNext ==
    \/ DoStreamSubmit
    \/ \E j \in StreamJobs : ThreadSetRoi(j)
    \/ \E j \in StreamJobs : OpenStream(j)
    \/ \E j \in StreamJobs : StreamRead(j)
    \/ \E j \in StreamJobs : FinishStream(j)
    \/ \E j \in StreamJobs : Complete(j)
    \/ \E j \in StreamJobs : HandleError(j)

SpecStream == PipelineInit /\ [][StreamNext]_vars

\* the steps of the thread that POST /process starts for the stream job j
\* (app.py, lines 112-116)
StreamThreadStep(j) ==
    \/ ThreadSetRoi(j)
    \/ OpenStream(j)
    \/ StreamRead(j)
    \/ FinishStream(j)
    \/ Complete(j)
    \/ HandleError(j)

\* a started thread keeps being scheduled: while it can take a step it takes
\* one in the end
FairSpecStream == SpecStream /\ \A j \in StreamJobs : WF_vars(StreamThreadStep(j))

(***************************************************************************)
(* get_track_direction on the histories the tracker builds: one vehicle,   *)
(* seen in each frame at one of four places a step apart or not at all,    *)
(* and the direction asked for any identity after any frame.               *)
(***************************************************************************)
DirectionFrames == 5

DirectionBoxes == { <<x, y, x + 20, y + 20>> : x \in {0, 1}, y \in {0, 1} }

DirectionFrameLists ==
    { <<>> } \cup { <<[bbox |-> b, confidence |-> 9, class_name |-> "car"]>> :
                      b \in DirectionBoxes }

DoUpdateDirection ==
    /\ frame_count < DirectionFrames
    /\ \E detections \in DirectionFrameLists : UpdateTracks(detections)
    /\ UNCHANGED roiVars
    /\ UNCHANGED restVars

DoGetTrackDirection ==
    /\ \E track_id \in 1..MaxId :
         last' = [op |-> "get_track_direction",
                  track_id |-> track_id,
                  result |-> GetTrackDirection(track_history, track_id)]
    /\ UNCHANGED <<trackerVars, roiVars, restVars>>

DirectionNext ==
    \/ DoUpdateDirection
    \/ DoGetTrackDirection

SpecDirection == Init /\ [][DirectionNext]_vars

(***************************************************************************)
(* The tracker fed one vehicle that stands still and is seen or missed in  *)
(* each frame, long enough for a confirmed track to coast and be deleted.  *)
(***************************************************************************)
CoastingFrames == 7

CoastingFrameLists ==
    { <<>>, <<[bbox |-> BoxA, confidence |-> 9, class_name |-> "car"]>> }

DoUpdateCoasting ==
    /\ frame_count < CoastingFrames
    /\ \E detections \in CoastingFrameLists : UpdateTracks(detections)
    /\ UNCHANGED roiVars
    /\ UNCHANGED restVars

CoastingNext == DoUpdateCoasting

SpecCoasting == Init /\ [][CoastingNext]_vars

(***************************************************************************)
(* The tracker with its default parameters fed one vehicle that stands     *)
(* still, over enough frames for a history to pass its cap of 30 entries   *)
(* and for a track to be missed 31 times and deleted.  A gap in the        *)
(* detections may go on for as long as it likes; a new gap may begin only  *)
(* while fewer than MaxShortGaps frames went without an association.       *)
(***************************************************************************)
HistoryFrames == 36
MaxShortGaps == 2

HistoryDetection == [bbox |-> BoxA, confidence |-> 9, class_name |-> "car"]

MayMiss ==
    IF tracks = <<>> THEN TRUE
    ELSE tracks[1].age >= 1 \/ frame_count - tracks[1].hits < MaxShortGaps

DoUpdateHistory ==
    /\ frame_count < HistoryFrames
    /\ \E detections \in { <<>>, <<HistoryDetection>> } :
        /\ detections = <<>> => MayMiss
        /\ UpdateTracks(detections)
    /\ UNCHANGED roiVars
    /\ UNCHANGED restVars

\* video_processor.py, lines 52 and 247: tracker.reset() before a new source
DoResetHistory ==
    /\ frame_count > 0
    /\ Reset
    /\ UNCHANGED roiVars
    /\ UNCHANGED restVars

HistoryNext ==
    \/ DoUpdateHistory
    \/ DoResetHistory

SpecHistory == PipelineInit /\ [][HistoryNext]_vars

(***************************************************************************)
(* GET /download/<process_id>/<file_type> beside a stream job.  A response *)
(* is a status code, the error text of its JSON body and the path of the   *)
(* file it sends.  send_file of a path where no file is fails inside       *)
(* Flask, with a 404 or a 500 by its version.  The output file is made by  *)
(* the writer, the log file by _save_logs.                                 *)
(***************************************************************************)
DownloadIds == { "job1", "nojob" }
FileTypes == { "video", "log", "other" }

NotFoundResponse(text) == [code |-> 404, error |-> text, file |-> None]

\* flask.send_file(path, as_attachment=True)
SendFile(path, exists) ==
    IF exists
    THEN { [code |-> 200, error |-> None, file |-> path] }
    ELSE { [code |-> c, error |-> "send_file failed", file |-> None] : c \in {404, 500} }

\* a variant of download_file without the test "not status" of line 164: the
\* lookup in None raises and the request ends with a 500
DownloadFileNoUnknownTest(process_id, file_type) ==
    IF process_id \notin DOMAIN processing_status
    THEN { [code |-> 500, error |-> "TypeError", file |-> None] }
    ELSE IF processing_status[process_id].status # "completed"
    THEN { NotFoundResponse("Processing not completed or ID not found") }
    ELSE IF file_type = "video" /\ processing_status[process_id].output_file # None
    THEN SendFile(processing_status[process_id].output_file,
                  jobs[process_id].out # "none")
    ELSE IF file_type = "log" /\ processing_status[process_id].log_file # None
    THEN SendFile(processing_status[process_id].log_file,
                  jobs[process_id].saved.written)
    ELSE { NotFoundResponse("File not found") }

\* download_file, lines 162-172: the responses it can give
DownloadFile(process_id, file_type) ==
    IF process_id \notin DOMAIN processing_status
    THEN { NotFoundResponse("Processing not completed or ID not found") }
    ELSE IF processing_status[process_id].status # "completed"
    THEN { NotFoundResponse("Processing not completed or ID not found") }
    ELSE IF file_type = "video" /\ processing_status[process_id].output_file # None
    THEN SendFile(processing_status[process_id].output_file,
                  jobs[process_id].out # "none")
    ELSE IF file_type = "log" /\ processing_status[process_id].log_file # None
    THEN SendFile(processing_status[process_id].log_file,
                  jobs[process_id].saved.written)
    ELSE { NotFoundResponse("File not found") }

DoDownloadFile ==
    /\ \E process_id \in DownloadIds, file_type \in FileTypes :
         \E response \in DownloadFile(process_id, file_type) :
            last' = [op |-> "download_file", process_id |-> process_id,
                     file_type |-> file_type, response |-> response]
    /\ UNCHANGED <<trackerVars, roiVars, restVars>>

DownloadNext ==
    \/ StreamNext
    \/ DoDownloadFile

SpecDownload == PipelineInit /\ [][DownloadNext]_vars

(***************************************************************************)
(* Properties of the ROI manager, checked under SpecRoi.                   *)
(***************************************************************************)
RECURSIVE SetSum(_, _)
SetSum(f, S) ==
    IF S = {} THEN 0
    ELSE LET c == CHOOSE x \in S : TRUE IN f[c] + SetSum(f, S \ {c})

ByTypeIn == SetSum([c \in DOMAIN vehicle_counts.by_type |-> vehicle_counts.by_type[c].in],
                   DOMAIN vehicle_counts.by_type)
ByTypeOut == SetSum([c \in DOMAIN vehicle_counts.by_type |-> vehicle_counts.by_type[c].out],
                    DOMAIN vehicle_counts.by_type)

RecordsFor(id) ==
    Cardinality({ k \in 1..Len(entry_log) : entry_log[k].track_id = id })
    + Cardinality({ k \in 1..Len(exit_log) : exit_log[k].track_id = id })

\* C1: between two resets of the counting region, the entry and exit logs
\* together hold at most one record for every track identity, and the
\* aggregate and per-type counters have been incremented at most once per
\* identity (they never exceed the number of counted identities).
C1_AtMostOnce ==
    /\ \A id \in 1..MaxTrackArg : RecordsFor(id) <= 1
    /\ vehicle_counts.total_in + vehicle_counts.total_out <= Cardinality(crossed_vehicles)
    /\ ByTypeIn + ByTypeOut <= Cardinality(crossed_vehicles)

\* a counted identity was checked again next to a boundary and was not counted
C1_Witness ==
    /\ last.op = "check_vehicle_crossing"
    /\ last.track_id \in crossed_vehicles
    /\ last.result = NoCrossing
    /\ FirstNearLine(counting_lines, last.center_point) # 0
    /\ RecordsFor(last.track_id) = 1

\* C5: right after a successful set_roi, from any prior state, the totals are
\* 0, the per-type map is empty, no identity is counted, both logs are empty
\* and the boundaries are the ones derived from the new polygon.
C5_RoiReset ==
    (last.op = "set_roi" /\ last.result = "ok") =>
        /\ vehicle_counts.total_in = 0
        /\ vehicle_counts.total_out = 0
        /\ DOMAIN vehicle_counts.by_type = {}
        /\ crossed_vehicles = {}
        /\ entry_log = <<>>
        /\ exit_log = <<>>
        /\ roi_points = last.points
        /\ counting_lines = GenerateCountingLines(last.points, <<>>)

C5_Witness ==
    /\ last.op = "set_roi"
    /\ last.result = "ok"
    /\ roi_points = Square
    /\ vehicle_counts = EmptyCounts

\* C6: set_roi with fewer than 3 points is rejected with a validation error
\* and leaves the polygon, the boundaries, the counters, the counted
\* identities and both logs as they were.
C6_ShortRoiRejected ==
    [][(last'.op = "set_roi" /\ Len(last'.points) < 3) =>
           (last'.result = "ValueError" /\ UNCHANGED roiVars)]_vars

\* a rejected set_roi in a state that has a polygon and counts
C6_Witness ==
    /\ last.op = "set_roi"
    /\ last.result = "ValueError"
    /\ Len(roi_points) >= 3
    /\ vehicle_counts.total_in + vehicle_counts.total_out > 0
    /\ crossed_vehicles # {}

PointXs == { roi_points[i][1] : i \in 1..Len(roi_points) }
PointYs == { roi_points[i][2] : i \in 1..Len(roi_points) }
IsLeast(v, S) == v \in S /\ \A w \in S : v <= w
IsGreatest(v, S) == v \in S /\ \A w \in S : v >= w

\* y is the float n2 / 2 cut to an integer toward zero
IsTruncatedHalf(y, n2) ==
    \/ 2 * y = n2
    \/ n2 > 0 /\ 2 * y = n2 - 1
    \/ n2 < 0 /\ 2 * y = n2 + 1

\* C7: for every polygon of at least 3 points set_roi derives exactly two
\* horizontal boundaries, the first labeled entry and the second exit, both
\* from the polygon's least x to its greatest x, the entry boundary at a
\* strictly smaller y than the exit boundary: the vertical center minus 30
\* and plus 30, cut to an integer; for the square (0,0) (100,0) (100,100)
\* (0,100) both span x in [0, 100].
C7_BoundaryGeometry ==
    Len(roi_points) >= 3 =>
        /\ Len(counting_lines) = 2
        /\ counting_lines[1].type = "entry"
        /\ counting_lines[2].type = "exit"
        /\ \A i \in 1..2 :
            /\ IsLeast(counting_lines[i].start[1], PointXs)
            /\ IsGreatest(counting_lines[i].end[1], PointXs)
            /\ counting_lines[i].start[2] = counting_lines[i].end[2]
        /\ counting_lines[1].start[2] < counting_lines[2].start[2]
        /\ \E lo \in PointYs, hi \in PointYs :
            /\ IsLeast(lo, PointYs)
            /\ IsGreatest(hi, PointYs)
            /\ IsTruncatedHalf(counting_lines[1].start[2], lo + hi - 60)
            /\ IsTruncatedHalf(counting_lines[2].start[2], lo + hi + 60)
        /\ roi_points = Square =>
            /\ counting_lines[1].start[1] = 0 /\ counting_lines[1].end[1] = 100
            /\ counting_lines[2].start[1] = 0 /\ counting_lines[2].end[1] = 100

\* the polygon with the half-integer vertical center -37.5: boundaries at -67 and -7
C7_Witness ==
    /\ Len(roi_points) = 3
    /\ Len(counting_lines) = 2
    /\ counting_lines[1] = [start |-> <<0, -67>>, end |-> <<4, -67>>, type |-> "entry"]
    /\ counting_lines[2] = [start |-> <<0, -7>>, end |-> <<4, -7>>, type |-> "exit"]

(***************************************************************************)
(* Properties of the tracker, checked under SpecTracker.                   *)
(***************************************************************************)
TrackOf(trks, id) == trks[CHOOSE p \in 1..Len(trks) : trks[p].track_id = id]

\* C2: update_tracks never returns a track whose hit count is below n_init;
\* with the default n_init = 3 a track that was started by one detection and
\* never associated again (hit count 1) is in no returned list.
C2_ConfirmationDelay ==
    last.op = "update_tracks" =>
        /\ n_init = 3
        /\ \A a \in 1..Len(last.active_tracks) :
            /\ last.active_tracks[a].track_id \in TrackIds(tracks)
            /\ TrackOf(tracks, last.active_tracks[a].track_id).hits >= n_init
        /\ \A p \in 1..Len(tracks) :
            tracks[p].hits = 1 =>
                \A a \in 1..Len(last.active_tracks) :
                    last.active_tracks[a].track_id # tracks[p].track_id

\* a confirmed track is returned while a once-seen track is coasting unreported
C2_Witness ==
    /\ last.op = "update_tracks"
    /\ Len(last.active_tracks) >= 1
    /\ \E p \in 1..Len(tracks) :
        /\ tracks[p].hits = 1
        /\ tracks[p].age >= 1
        /\ tracks[p].age < max_age

\* the matching update_tracks computes in the step (from the tracks before it)
StepMatching == AssociateTracks(CalculateIouMatrix(tracks, last'.detections))

\* C3: in every update_tracks call a track leaves the table exactly when it is
\* unmatched in the call and its age thereby exceeds max_age for the first
\* time (it was max_age), and then its history goes with it; every other
\* track stays under its identity, with age 0 and one more hit when it was
\* re-associated and with its age one higher, at most max_age, when not.
C3_Eviction ==
    [][last'.op = "update_tracks" =>
        \A m \in {StepMatching} : \A i \in 1..Len(tracks) :
            LET t == tracks[i]
                matched == \E a \in 1..Len(m[1]) : m[1][a] = i
            IN  IF t.track_id \in TrackIds(tracks')
                THEN LET u == TrackOf(tracks', t.track_id)
                     IN  IF matched
                         THEN u.age = 0 /\ u.hits = t.hits + 1
                         ELSE /\ u.age = t.age + 1
                              /\ u.age <= max_age
                              /\ u.hits = t.hits
                              /\ u.bbox = t.bbox
                ELSE /\ ~matched
                     /\ t.age = max_age
                     /\ t.track_id \notin DOMAIN track_history'
    ]_vars

\* one track was evicted, and another was re-associated after max_age missed frames
C3_Witness ==
    /\ last.op = "update_tracks"
    /\ Len(tracks) < next_id - 1
    /\ \E id \in DOMAIN track_history :
        /\ id \in TrackIds(tracks)
        /\ TrackOf(tracks, id).age = 0
        /\ \E k \in 1..(Len(track_history[id]) - 1) :
            /\ k + 1 = Len(track_history[id])
            /\ track_history[id][k + 1].frame - track_history[id][k].frame = max_age + 1

\* C4: track identities are issued in strictly increasing order and none is
\* issued twice in the life of the process: every identity a call issues is
\* above every identity issued before, whatever calls, evictions, resets and
\* job starts came before.
C4_IdentitiesNeverReissued ==
    [][last'.op = "update_tracks" =>
        \A n \in next_id..(next_id' - 1) : \A i \in issued : n > i]_vars

\* C8: in every update_tracks call the association is one-to-one: no track
\* and no detection occurs twice in the matching, every matched pair has an
\* IoU strictly above 0.7, and the tracks that gain a hit in the call are
\* exactly the matched ones, each with the box of its one detection.
C8_OneToOne ==
    [][last'.op = "update_tracks" =>
        \A dets \in {last'.detections} : \A m \in {StepMatching} :
            /\ Len(m[1]) = Len(m[2])
            /\ \A a, b \in 1..Len(m[1]) :
                a # b => (m[1][a] # m[1][b] /\ m[2][a] # m[2][b])
            /\ \A a \in 1..Len(m[1]) :
                /\ m[1][a] \in 1..Len(tracks)
                /\ m[2][a] \in 1..Len(dets)
                /\ LET iou == CalculateIou(tracks[m[1][a]].bbox, dets[m[2][a]].bbox)
                   IN  10 * iou[1] > 7 * iou[2]
                /\ tracks[m[1][a]].track_id \in TrackIds(tracks')
                /\ TrackOf(tracks', tracks[m[1][a]].track_id).bbox = dets[m[2][a]].bbox
            /\ \A i \in 1..Len(tracks) :
                (\E a \in 1..Len(m[1]) : m[1][a] = i)
                <=> /\ tracks[i].track_id \in TrackIds(tracks')
                    /\ TrackOf(tracks', tracks[i].track_id).hits = tracks[i].hits + 1
    ]_vars

\* a track took a detection and a later track that overlaps the same detection
\* above the threshold went unmatched
C8_Witness ==
    /\ last.op = "update_tracks"
    /\ Len(last.detections) = 1
    /\ \E i, j \in 1..Len(tracks) :
        /\ i < j
        /\ tracks[i].age = 0
        /\ tracks[i].hits >= 2
        /\ tracks[i].bbox = last.detections[1].bbox
        /\ tracks[j].age >= 1
        /\ AboveThreshold(CalculateIou(tracks[j].bbox, last.detections[1].bbox))

\* the track d is matched to: the detection's fields, one more hit, age 0
MatchedTo(t, d) ==
    [track_id |-> t.track_id, bbox |-> d.bbox, confidence |-> d.confidence,
     class_name |-> d.class_name, center |-> d.center, hits |-> t.hits + 1, age |-> 0]

\* the track d starts under identity id
StartedBy(id, d) ==
    [track_id |-> id, bbox |-> d.bbox, confidence |-> d.confidence,
     class_name |-> d.class_name, center |-> d.center, hits |-> 1, age |-> 0]

\* C9: when a frame has two detections that both overlap one track above the
\* threshold, and no other track overlaps either of them above it, exactly one
\* of the two is matched to the track and the other starts the call's one new
\* track, with the next identity (held by no track), hit count 1 and age 0.
C9_AmbiguousClaim ==
    [][last'.op = "update_tracks" =>
        \A dets \in {last'.detections} :
        LET Over(i, j) == AboveThreshold(CalculateIou(tracks[i].bbox, dets[j].bbox))
        IN  Len(dets) = 2 =>
            \A i \in 1..Len(tracks) :
                (/\ Len(dets) = 2
                 /\ Over(i, 1)
                 /\ Over(i, 2)
                 /\ \A o \in 1..Len(tracks) : o # i => (~Over(o, 1) /\ ~Over(o, 2)))
                => \E k \in {1, 2} :
                    /\ tracks[i].track_id \in TrackIds(tracks')
                    /\ TrackOf(tracks', tracks[i].track_id) = MatchedTo(tracks[i], dets[k])
                    /\ next_id' = next_id + 1
                    /\ next_id \notin TrackIds(tracks)
                    /\ tracks'[Len(tracks')] = StartedBy(next_id, dets[3 - k])
                    /\ Cardinality({ p \in 1..Len(tracks') : tracks'[p].hits = 1
                                                              /\ tracks'[p].age = 0 }) = 1
    ]_vars

\* a track with a history took one of two detections that both overlap its
\* previous box above the threshold, and the other started the newest track
C9_Witness ==
    /\ last.op = "update_tracks"
    /\ Len(last.detections) = 2
    /\ Len(tracks) >= 2
    /\ tracks[Len(tracks)].hits = 1
    /\ tracks[Len(tracks)].age = 0
    /\ \E p \in 1..(Len(tracks) - 1), k \in {1, 2} :
        /\ tracks[p].age = 0
        /\ tracks[p].track_id \in DOMAIN track_history
        /\ Len(track_history[tracks[p].track_id]) >= 2
        /\ tracks[p].bbox = last.detections[k].bbox
        /\ tracks[Len(tracks)].bbox = last.detections[3 - k].bbox
        /\ LET h == track_history[tracks[p].track_id]
               before == h[Len(h) - 1].bbox
           IN  /\ AboveThreshold(CalculateIou(before, last.detections[1].bbox))
               /\ AboveThreshold(CalculateIou(before, last.detections[2].bbox))

\* C10: when two tracks both have the same detection as their maximum-IoU
\* detection, above the threshold, and no earlier track has it so, the
\* earlier-created track (smaller identity) is matched to it and the later one
\* is left unmatched in the call: its age goes up by 1 (and it is evicted if
\* that exceeds max_age), whatever other detections overlap it.
C10_ContestedDetection ==
    [][last'.op = "update_tracks" =>
        \A dets \in {last'.detections} :
        \A M \in {CalculateIouMatrix(tracks, dets)} :
        LET Contests(i, j) == ArgMax(M[i]) = j /\ AboveThreshold(M[i][j])
        IN  Len(M) > 0 =>
            \A i, j \in 1..Len(tracks) : \A d \in 1..Len(dets) :
                (/\ i < j
                 /\ Contests(i, d)
                 /\ Contests(j, d)
                 /\ \A h \in 1..(i - 1) : ~Contests(h, d))
                => /\ tracks[i].track_id < tracks[j].track_id
                   /\ tracks[i].track_id \in TrackIds(tracks')
                   /\ TrackOf(tracks', tracks[i].track_id) = MatchedTo(tracks[i], dets[d])
                   /\ IF tracks[j].track_id \in TrackIds(tracks')
                      THEN TrackOf(tracks', tracks[j].track_id)
                               = [tracks[j] EXCEPT !.age = @ + 1]
                      ELSE tracks[j].age + 1 > max_age
    ]_vars

\* the earlier of two tracks took the contested detection, the later one aged,
\* and a second detection that overlaps the later one started a new track
C10_Witness ==
    /\ last.op = "update_tracks"
    /\ Len(last.detections) = 2
    /\ \E i, j, n \in 1..Len(tracks) : \E d \in {1, 2} :
        /\ i < j
        /\ j < n
        /\ tracks[i].age = 0
        /\ tracks[i].hits >= 2
        /\ tracks[i].bbox = last.detections[d].bbox
        /\ tracks[j].age = 1
        /\ AboveThreshold(CalculateIou(tracks[j].bbox, last.detections[d].bbox))
        /\ AboveThreshold(CalculateIou(tracks[j].bbox, last.detections[3 - d].bbox))
        /\ tracks[n].hits = 1
        /\ tracks[n].age = 0
        /\ tracks[n].bbox = last.detections[3 - d].bbox

(***************************************************************************)
(* Properties of process_frame, checked under SpecPipeline.                *)
(***************************************************************************)
ScenarioDone == scenario_pos = Len(ScenarioCentersY)

\* the car of the scenario passes the entry boundary: the boundary's y lies
\* between the first and the last center of the scenario
ScenarioCrossesEntry ==
    /\ Len(counting_lines) = 2
    /\ counting_lines[1].type = "entry"
    /\ counting_lines[1].start[2] >= ScenarioCentersY[1]
    /\ counting_lines[1].start[2] <= ScenarioCentersY[Len(ScenarioCentersY)]

NearBoundary(center, line) ==
    /\ line.start[1] # line.end[1]
    /\ line.start[2] = line.end[2]
    /\ Abs(center[2] - 2 * line.start[2]) < 2 * LineThreshold

NearSomeBoundary(center) ==
    \E i \in 1..Len(counting_lines) : NearBoundary(center, counting_lines[i])

\* C12: in every processed frame, each track that update_tracks returned,
\* that was not counted before the frame and whose center is less than 100
\* from the entry or the exit boundary is counted in that frame: it joins
\* the counted identities, gets its one ledger record and its counter, and
\* process_frame marks it as crossing.
C12_NoMissedCrossing ==
    [][ last'.op = "update_tracks" =>
          \A k \in 1..Len(last'.active_tracks) :
            \A t \in {last'.active_tracks[k]} :
              (t.track_id \notin crossed_vehicles /\ NearSomeBoundary(t.center)) =>
                /\ t.track_id \in crossed_vehicles'
                /\ Len(entry_log') + Len(exit_log') > Len(entry_log) + Len(exit_log)
                /\ vehicle_counts'.total_in + vehicle_counts'.total_out
                     = Cardinality(crossed_vehicles')
                /\ \E r \in 1..Len(entry_log') + Len(exit_log') :
                     (entry_log' \o exit_log')[r].track_id = t.track_id
                /\ frame_tracks'[k].track_id = t.track_id
                /\ frame_tracks'[k].is_crossing = TRUE ]_vars

\* two tracks are counted in one frame, one at each boundary
C12_Witness ==
    /\ Len(frame_tracks) = 2
    /\ frame_tracks[1].is_crossing = TRUE
    /\ frame_tracks[2].is_crossing = TRUE
    /\ frame_tracks[1].crossing_direction = "out"
    /\ frame_tracks[2].crossing_direction = "in"
    /\ NearSomeBoundary(frame_tracks[1].center)
    /\ vehicle_counts.total_in = 1
    /\ vehicle_counts.total_out = 1

(***************************************************************************)
(* Properties of the jobs, checked under SpecJobs.                         *)
(***************************************************************************)
\* the job has set its region and has not yet stored its final status
JobRunning(i) == jobs[i].pc \in {"process", "loop", "finish", "completing"}

\* C13: job isolation.  While a job is running, no step of another job's
\* thread (its start, its frames, its failure) changes the tracks, the
\* counting region, the counters, the counted identities or the logs that
\* the running job works on.
C13_JobIsolation ==
    [][ \A i \in DOMAIN jobs :
          (JobRunning(i) /\ thread' # i) =>
              UNCHANGED <<tracks, next_id, track_history, frame_count,
                          roi_points, counting_lines, vehicle_counts,
                          crossed_vehicles, entry_log, exit_log>> ]_vars

\* the job's region is valid, so its thread goes on to open the source, and
\* the source does not open
SourceFails(j) == Len(jobs[j].roi_points) >= 3 /\ ~jobs[j].video.openable

\* C14: a job whose frame source cannot be opened never has the status
\* completed and never processes a frame; once process_video has raised,
\* its status is error with a message that names the failure to open the
\* source, and it ends so.
C14_InputSourceError ==
    \A j \in DOMAIN jobs :
        SourceFails(j) =>
            /\ processing_status[j].status # "completed"
            /\ jobs[j].frame_count = 0
            /\ jobs[j].pc \in {"thread", "process", "raised", "done"}
            /\ jobs[j].pc \in {"thread", "process"} =>
                 processing_status[j].status = "processing"
            /\ jobs[j].pc = "raised" =>
                 /\ processing_status[j].status = "error"
                 /\ processing_status[j].message =
                      <<"Error during processing", "Could not open video source">>
            /\ jobs[j].pc = "done" =>
                 /\ processing_status[j].status = "error"
                 /\ processing_status[j].progress = 0
                 /\ processing_status[j].message =
                      <<"Processing failed", "Could not open video source">>
                 /\ ~processing_status[j].counts.present

\* one job has failed to open its source while the other one has completed
C14_Witness ==
    /\ DOMAIN jobs = Jobs
    /\ SourceFails("job1")
    /\ jobs["job1"].pc = "done"
    /\ processing_status["job1"].status = "error"
    /\ processing_status["job2"].status = "completed"
    /\ jobs["job2"].frame_count = MaxJobFrames

\* C15: for every job and at every moment, the progress field of its status
\* record is an integer from 0 to 100.
C15_ProgressRange ==
    \A j \in DOMAIN processing_status :
        processing_status[j].progress \in 0..100

\* C16: the counts query returns a point-in-time snapshot.  The final counts
\* stored in a completed job's status record, the value get_counts returned,
\* read the same at every later moment as when get_counts returned them,
\* whatever crossing is counted in between.
C16_CountsSnapshot ==
    \A j \in DOMAIN processing_status :
        processing_status[j].counts.present =>
            CountsSeen(processing_status[j].counts) = processing_status[j].counts.returned

(***************************************************************************)
(* Properties of filter_detections_by_size, checked under SpecFilter.      *)
(***************************************************************************)
\* the positions of the list whose box has (x2 - x1) * (y2 - y1) >= min_area
KeptPositions(detections, min_area) ==
    { i \in 1..Len(detections) :
        (detections[i].bbox[3] - detections[i].bbox[1])
        * (detections[i].bbox[4] - detections[i].bbox[2]) >= min_area }

\* the n-th smallest element of a set of numbers
NthOf(S, n) == CHOOSE i \in S : Cardinality({ k \in S : k < i }) = n - 1

\* C17: filter_detections_by_size returns exactly the detections whose area
\* (x2 - x1) * (y2 - y1) is at least min_area, each once and in the order of
\* the input, and it changes no state.
C17_FilterBySize ==
    [][ last'.op = "filter_detections_by_size" =>
          \A K \in {KeptPositions(last'.detections, last'.min_area)} :
            /\ Len(last'.result) = Cardinality(K)
            /\ \A n \in 1..Len(last'.result) :
                 last'.result[n] = last'.detections[NthOf(K, n)]
            /\ UNCHANGED <<trackerVars, roiVars, restVars>> ]_vars

\* a list of two boxes of which the first, of area exactly min_area, is kept
C17_Witness ==
    /\ last.op = "filter_detections_by_size"
    /\ Len(last.detections) = 2
    /\ Len(last.result) = 1
    /\ last.result[1] = last.detections[1]
    /\ last.min_area = 500
    /\ last.result[1].bbox = <<0, 0, 20, 25>>

\* a box with x2 <= x1 or y2 <= y1
Malformed(bbox) == bbox[3] <= bbox[1] \/ bbox[4] <= bbox[2]

\* C18: every detection whose box has x2 <= x1 or y2 <= y1, boxes inverted
\* on both axes included, is dropped by the size filter for every positive
\* min_area.
C18_MalformedDropped ==
    last.op = "filter_detections_by_size" =>
        \A n \in 1..Len(last.result) : ~Malformed(last.result[n].bbox)

\* both boxes of the last IoU call have x1 < x2 and y1 < y2
WellFormedPair == ~Malformed(last.bbox1) /\ ~Malformed(last.bbox2)

\* the two boxes share no interior point (boxes that only touch included)
NoOverlap(a, b) == a[3] <= b[1] \/ b[3] <= a[1] \/ a[4] <= b[2] \/ b[4] <= a[2]

\* C19: for well-formed boxes a and b, IoU(a,a) = 1, IoU(a,b) = 0 when a and
\* b do not overlap (boxes that only touch on an edge included),
\* IoU(a,b) = IoU(b,a), and 0 <= IoU(a,b) <= 1.  An IoU is the fraction
\* <<numerator, denominator>>.
C19_IouCorrectness ==
    (last.op = "_calculate_iou" /\ WellFormedPair) =>
        /\ last.result[2] > 0
        /\ last.bbox1 = last.bbox2 => last.result[1] = last.result[2]
        /\ NoOverlap(last.bbox1, last.bbox2) => last.result[1] = 0
        /\ \E swapped \in {CalculateIou(last.bbox2, last.bbox1)} :
              last.result[1] * swapped[2] = swapped[1] * last.result[2]
        /\ 0 <= last.result[1]
        /\ last.result[1] <= last.result[2]

\* two different well-formed boxes that overlap in part, with an IoU strictly
\* between 0 and 1
C19_Witness ==
    /\ last.op = "_calculate_iou"
    /\ last.bbox1 = <<0, 0, 2, 2>>
    /\ last.bbox2 = <<1, 1, 3, 2>>
    /\ last.result = <<1, 5>>

\* the one detection of the frame
FrameBox == last'.detections[1].bbox

\* the track at position i was not updated by the frame's detection: it aged
\* by one frame and kept its hits and its box, if it is still held
Unmatched(i) ==
    \A k \in 1..Len(tracks') :
        tracks'[k].track_id = tracks[i].track_id =>
            /\ tracks'[k].hits = tracks[i].hits
            /\ tracks'[k].age = tracks[i].age + 1
            /\ tracks'[k].bbox = tracks[i].bbox

\* update_tracks has a result for every detection the frame may bring
UpdateCompletes ==
    frame_count < GeometryFrames =>
        \A bbox \in GeometryBoxes : ENABLED UpdateTracks(<<GeometryDetection(bbox)>>)

\* C20: when the box of a track or the box of a detection is degenerate or
\* inverted (x2 <= x1 or y2 <= y1), their IoU is 0 and the two are never
\* matched: the track ages without a hit and the detection starts a track of
\* its own; update_tracks completes for every detection list.
C20_IllFormedGeometry ==
    /\ []UpdateCompletes
    /\ [][ (last'.op = "update_tracks" /\ Len(last'.detections) = 1) =>
              /\ \A i \in 1..Len(tracks) :
                    (Malformed(tracks[i].bbox) \/ Malformed(FrameBox)) =>
                        /\ CalculateIou(tracks[i].bbox, FrameBox)[1] = 0
                        /\ Unmatched(i)
              /\ (Len(tracks) > 0 /\ Malformed(FrameBox)) =>
                    /\ next_id' = next_id + 1
                    /\ tracks'[Len(tracks')].bbox = FrameBox ]_vars

\* a track whose box is inverted on both axes met the box it mirrors and
\* stayed unmatched; the detection became track 2
C20_Witness ==
    /\ last.op = "update_tracks"
    /\ Len(tracks) = 2
    /\ tracks[1].bbox = <<2, 2, 0, 0>>
    /\ tracks[1].age = 1
    /\ tracks[1].hits = 1
    /\ tracks[2].bbox = <<0, 0, 2, 2>>
    /\ tracks[2].track_id = 2

\* the stream job j has left its loop at the duration test
StoppedByDuration(j) == j \in DOMAIN jobs /\ jobs[j].stop = "duration"

\* the tracker and the ledger are as they were
NothingProcessed ==
    /\ frame_count' = frame_count
    /\ tracks' = tracks
    /\ vehicle_counts' = vehicle_counts
    /\ crossed_vehicles' = crossed_vehicles
    /\ entry_log' = entry_log
    /\ exit_log' = exit_log

\* C21: a stream job's worker tests the duration between reading a frame and
\* processing it; a turn of the loop that finds the duration exceeded
\* processes no frame, and from then on the job processes none: it releases
\* the capture and the writer, every count and log record made before the
\* stop is kept, and the records are all in the file the job saves.
C21_CooperativeCancellation ==
    [][ \A j \in DOMAIN jobs :
          /\ (/\ jobs[j].pc = "loop"
              /\ jobs'[j].pc # "loop" \/ jobs'[j].frame_count # jobs[j].frame_count
              /\ jobs[j].frame_count < jobs[j].stream.frames
              /\ DurationOver(jobs[j].duration, jobs'[j].elapsed))
               => (StoppedByDuration(j)' /\ NothingProcessed)
          /\ StoppedByDuration(j) =>
               /\ NothingProcessed
               /\ jobs'[j].frame_count = jobs[j].frame_count
               /\ jobs'[j].pc \in {"completing", "done"} =>
                    /\ jobs'[j].cap = "released"
                    /\ jobs'[j].out = "released"
                    /\ jobs'[j].saved.rows = entry_log \o exit_log
                    /\ entry_log \o exit_log # <<>> => jobs'[j].saved.written ]_vars

\* a stream job that counted a car at its third frame, was stopped by its
\* duration at the fourth, and completed with the record saved
C21_Witness ==
    /\ "job1" \in DOMAIN jobs
    /\ jobs["job1"].stop = "duration"
    /\ jobs["job1"].pc = "done"
    /\ jobs["job1"].frame_count = 3
    /\ jobs["job1"].stream.frames = 4
    /\ vehicle_counts.total_in = 1
    /\ Len(jobs["job1"].saved.rows) = 1
    /\ jobs["job1"].saved.written
    /\ jobs["job1"].cap = "released"
    /\ processing_status["job1"].status = "completed"

\* C22: a processing request whose region has fewer than 3 points is
\* rejected before it is accepted as a job: no status record and no thread
\* exist for it, and no frame is processed for it.
C22_ConfigErrorRejected ==
    \A j \in DOMAIN jobs :
        Len(jobs[j].roi_points) < 3 =>
            /\ j \notin DOMAIN processing_status
            /\ jobs[j].frame_count = 0

\* the track u is the track t after a match with a detection of the call
MatchedForm(t, u) ==
    /\ u.age = 0
    /\ u.hits = t.hits + 1
    /\ \E d \in 1..Len(last'.detections) :
        /\ u.bbox = last'.detections[d].bbox
        /\ u.confidence = last'.detections[d].confidence
        /\ u.class_name = last'.detections[d].class_name
        /\ u.center = last'.detections[d].center

\* the track u is the track t after a call that did not match it
UnmatchedForm(t, u) == u = [t EXCEPT !.age = t.age + 1]

\* C23: in every update_tracks call each track that existed before the call
\* is updated exactly once: it is either matched (age 0, one more hit, box,
\* confidence, category and center those of a detection of the call) or
\* unmatched (age one higher, everything else as it was), never both and
\* never neither; a track that is gone after the call was unmatched and
\* aged past max_age.
C23_ExactlyOnceUpdate ==
    [][last'.op = "update_tracks" =>
        /\ frame_count' = frame_count + 1
        /\ \A i \in 1..Len(tracks) :
            \E after \in {{ k \in 1..Len(tracks') :
                              tracks'[k].track_id = tracks[i].track_id }} :
                /\ Cardinality(after) <= 1
                /\ \A k \in after :
                     MatchedForm(tracks[i], tracks'[k]) # UnmatchedForm(tracks[i], tracks'[k])
                /\ after = {} => tracks[i].age + 1 > max_age
    ]_vars

\* in one call a track was matched for the second time while another, one
\* call old, went unmatched
C23_Witness ==
    /\ last.op = "update_tracks"
    /\ frame_count = 2
    /\ Len(tracks) = 2
    /\ tracks[1].hits = 2
    /\ tracks[1].age = 0
    /\ tracks[2].hits = 1
    /\ tracks[2].age = 1

\* the call of the step was made for an identity not yet counted, with both
\* boundaries configured
FreshCheck ==
    /\ last'.op = "check_vehicle_crossing"
    /\ last'.track_id \notin crossed_vehicles
    /\ Len(counting_lines) = 2

\* C24: entry before exit.  A check of an uncounted identity whose center is
\* less than the threshold from both boundaries records direction in with
\* boundary entry; direction out with boundary exit is recorded only when
\* the center is at least the threshold from the entry boundary and less
\* than the threshold from the exit boundary.
C24_EntryBeforeExit ==
    [][ FreshCheck =>
          /\ (/\ NearBoundary(last'.center_point, counting_lines[1])
              /\ NearBoundary(last'.center_point, counting_lines[2]))
               => /\ last'.result = <<TRUE, "in", "entry">>
                  /\ Len(entry_log') = Len(entry_log) + 1
                  /\ exit_log' = exit_log
          /\ (last'.result = <<TRUE, "out", "exit">> \/ exit_log' # exit_log)
               => /\ ~NearBoundary(last'.center_point, counting_lines[1])
                  /\ NearBoundary(last'.center_point, counting_lines[2])
                  /\ last'.result = <<TRUE, "out", "exit">>
                  /\ Len(exit_log') = Len(exit_log) + 1 ]_vars

\* one identity was counted in at a center near both boundaries, another
\* counted out at a center exactly the threshold from the entry boundary
C24_Witness ==
    /\ roi_points = Square
    /\ Len(entry_log) = 1
    /\ Len(exit_log) = 1
    /\ last.op = "check_vehicle_crossing"
    /\ last.center_point = <<100, 240>>
    /\ last.result = <<TRUE, "out", "exit">>

\* C25: the direction argument is ignored.  Whatever direction a call of
\* check_vehicle_crossing was given, its result and the ROI manager's fields
\* after it are those the same call gives, from the same state, with any
\* other direction, none included.
C25_DirectionIgnored ==
    [][ last'.op = "check_vehicle_crossing" =>
          \A direction \in Directions :
            \E other \in {CrossingOutcome(RoiState, last'.track_id, last'.center_point,
                                          direction, last'.vehicle_type)} :
              /\ last'.result = other.result
              /\ crossed_vehicles' = other.roi.crossed_vehicles
              /\ vehicle_counts' = other.roi.vehicle_counts
              /\ entry_log' = other.roi.entry_log
              /\ exit_log' = other.roi.exit_log
              /\ counting_lines' = other.roi.counting_lines ]_vars

\* an identity was counted by a call without a direction, after another was
\* counted by a call with one
C25_Witness ==
    /\ last.op = "check_vehicle_crossing"
    /\ last.direction = None
    /\ last.result[1] = TRUE
    /\ Cardinality(crossed_vehicles) = 2

\* C26: ledger consistency.  In every state of the ROI manager total_in is
\* the number of entry-log records and the sum of the per-category in
\* counts, total_out is the number of exit-log records and the sum of the
\* per-category out counts, and total_in + total_out is the number of
\* counted identities.
C26_LedgerConsistency ==
    /\ vehicle_counts.total_in = Len(entry_log)
    /\ vehicle_counts.total_in = ByTypeIn
    /\ vehicle_counts.total_out = Len(exit_log)
    /\ vehicle_counts.total_out = ByTypeOut
    /\ vehicle_counts.total_in + vehicle_counts.total_out = Cardinality(crossed_vehicles)

\* two identities of the same category counted, one in and one out
C26_Witness ==
    /\ vehicle_counts.total_in = 1
    /\ vehicle_counts.total_out = 1
    /\ DOMAIN vehicle_counts.by_type = {"truck"}
    /\ vehicle_counts.by_type["truck"] = [in |-> 1, out |-> 1]
    /\ Len(entry_log) = 1
    /\ Len(exit_log) = 1
    /\ crossed_vehicles = {1, 2}

\* the call of the step is one of the three cases without a crossing
NoCrossingCase ==
    \/ Len(counting_lines) = 0
    \/ last'.track_id \in crossed_vehicles
    \/ \A i \in 1..Len(counting_lines) :
          ~NearBoundary(last'.center_point, counting_lines[i])

\* the step resets the counts: reset_counts, or a set_roi that was accepted
ResetStep ==
    \/ last'.op = "reset_counts"
    \/ last'.op = "set_roi" /\ last'.result = "ok"

\* C27: a check_vehicle_crossing call for an identity already counted, for
\* a center with no boundary within the threshold, or without boundaries
\* configured reports no crossing, and a call that reports no crossing
\* leaves the counters, the per-category counts, the counted identities and
\* both logs unchanged; a counted identity stays counted in every step that
\* is not a reset.
C27_NoCrossingNoEffect ==
    [][ /\ (last'.op = "check_vehicle_crossing" /\ NoCrossingCase)
            => last'.result = NoCrossing
        /\ (last'.op = "check_vehicle_crossing" /\ last'.result = NoCrossing)
            => /\ NoCrossingCase
               /\ vehicle_counts' = vehicle_counts
               /\ crossed_vehicles' = crossed_vehicles
               /\ entry_log' = entry_log
               /\ exit_log' = exit_log
        /\ ~ResetStep => crossed_vehicles \subseteq crossed_vehicles' ]_vars

\* after one identity was counted, a second identity was checked exactly
\* 100 from the exit boundary: no crossing, and the ledger still holds the
\* one record
C27_Witness ==
    /\ roi_points = Square
    /\ crossed_vehicles = {1}
    /\ Len(entry_log) = 1
    /\ vehicle_counts.total_in = 1
    /\ last.op = "check_vehicle_crossing"
    /\ last.track_id = 2
    /\ last.center_point = <<100, 360>>
    /\ last.result = NoCrossing

\* both boundaries exist and have equal start and end points
ZeroLengthBoundaries ==
    /\ Len(counting_lines) = 2
    /\ \A i \in 1..2 : counting_lines[i].start = counting_lines[i].end

\* C28: when the points of the region all share one x coordinate, both
\* boundaries have equal start and end points, and then every
\* check_vehicle_crossing call returns no crossing and changes no count, no
\* log and no counted identity.
C28_ZeroLengthBoundary ==
    [][ /\ (Len(roi_points') >= 3 /\ \A i \in 1..Len(roi_points') :
                                        roi_points'[i][1] = roi_points'[1][1])
            => ZeroLengthBoundaries'
        /\ (last'.op = "check_vehicle_crossing" /\ ZeroLengthBoundaries)
            => /\ last'.result = NoCrossing
               /\ vehicle_counts' = vehicle_counts
               /\ crossed_vehicles' = crossed_vehicles
               /\ entry_log' = entry_log
               /\ exit_log' = exit_log ]_vars

\* an uncounted identity was checked in the region whose points all have x = 5
C28_Witness ==
    /\ roi_points = << <<5, 0>>, <<5, 10>>, <<5, 20>> >>
    /\ ZeroLengthBoundaries
    /\ last.op = "check_vehicle_crossing"
    /\ last.track_id \notin crossed_vehicles
    /\ last.result = NoCrossing
    /\ vehicle_counts = EmptyCounts

Sign(n) == IF n > 0 THEN 1 ELSE IF n < 0 THEN -1 ELSE 0

\* the center of the entry that is "back" entries before the last of the
\* track's history
CenterFromEnd(id, back) == track_history[id][Len(track_history[id]) - back].center

\* the net displacement over the last (at most 3) history entries of the track
NetDisplacement(id) ==
    LET back == IF Len(track_history[id]) >= 3 THEN 2 ELSE 1
    IN  <<CenterFromEnd(id, 0)[1] - CenterFromEnd(id, back)[1],
          CenterFromEnd(id, 0)[2] - CenterFromEnd(id, back)[2]>>

\* C29: get_track_direction returns none exactly when the track has fewer
\* than 2 history entries or the first and the last of its last (at most 3)
\* entries have the same center; otherwise it returns a vector whose x and y
\* have the signs of that net displacement.
C29_TrackDirection ==
    last.op = "get_track_direction" =>
        IF \/ last.track_id \notin DOMAIN track_history
           \/ Len(track_history[last.track_id]) < 2
        THEN last.result = None
        ELSE \E net \in {NetDisplacement(last.track_id)} :
               IF net = <<0, 0>>
               THEN last.result = None
               ELSE /\ last.result # None
                    /\ Sign(last.result[1]) = Sign(net[1])
                    /\ Sign(last.result[2]) = Sign(net[2])

\* a history of 4 entries whose last step goes back to the left while the
\* net displacement over the last 3 entries is straight down
C29_Witness ==
    /\ last.op = "get_track_direction"
    /\ last.track_id = 1
    /\ 1 \in DOMAIN track_history
    /\ Len(track_history[1]) = 4
    /\ CenterFromEnd(1, 0)[1] < CenterFromEnd(1, 1)[1]
    /\ NetDisplacement(1)[1] = 0
    /\ NetDisplacement(1)[2] > 0
    /\ last.result = <<0, 1>>

\* the record has exactly the keys of a crossing record
HasLogFields(rec) == DOMAIN rec = { LogEntryFields[k] : k \in 1..Len(LogEntryFields) }

\* the log after the step is the log before it with one record, for the
\* identity of the call, added at its end
AppendedTo(before, after) ==
    /\ Len(after) = Len(before) + 1
    /\ SubSeq(after, 1, Len(before)) = before
    /\ after[Len(after)].track_id = last'.track_id

\* C30: every crossing record has direction in with boundary label entry or
\* direction out with boundary label exit; the entry log holds only the
\* former and the exit log only the latter; a log changes only by a reset
\* or by one record added at its end, so each log is in the order of the
\* crossings; every record has the fields timestamp, track_id,
\* vehicle_type, direction, line_type, in that order.
C30_CrossingRecords ==
    /\ [](/\ \A k \in 1..Len(entry_log) :
               /\ entry_log[k].direction = "in"
               /\ entry_log[k].line_type = "entry"
               /\ HasLogFields(entry_log[k])
          /\ \A k \in 1..Len(exit_log) :
               /\ exit_log[k].direction = "out"
               /\ exit_log[k].line_type = "exit"
               /\ HasLogFields(exit_log[k])
          /\ LogEntryFields[1] = "timestamp"
          /\ LogEntryFields[2] = "track_id"
          /\ LogEntryFields[3] = "vehicle_type"
          /\ LogEntryFields[4] = "direction"
          /\ LogEntryFields[5] = "line_type")
    /\ [][ IF ResetStep THEN entry_log' = <<>> /\ exit_log' = <<>>
           ELSE IF last'.op = "check_vehicle_crossing" /\ last'.result[1] = TRUE
           THEN \/ AppendedTo(entry_log, entry_log') /\ exit_log' = exit_log
                \/ AppendedTo(exit_log, exit_log') /\ entry_log' = entry_log
           ELSE entry_log' = entry_log /\ exit_log' = exit_log ]_vars

\* identity 2 counted out before identity 1, and each log with its own record
C30_Witness ==
    /\ Len(entry_log) = 1
    /\ Len(exit_log) = 1
    /\ entry_log[1].track_id = 1
    /\ entry_log[1].vehicle_type = "car"
    /\ exit_log[1].track_id = 2
    /\ exit_log[1].vehicle_type = "truck"
    /\ last.op = "check_vehicle_crossing"
    /\ last.track_id = 1
    /\ last.result = <<TRUE, "in", "entry">>

\* the associations recorded in the history were made in consecutive frames
ConsecutiveFrames(h) == \A k \in 1..(Len(h) - 1) : h[k + 1].frame = h[k].frame + 1

\* C31: a track is reported active only after detections associated to it
\* in n_init consecutive frames: a returned track that has just its n_init
\* hits got its re-associations in consecutive frames, without a missed
\* frame between them.
C31_ConsecutiveConfirmation ==
    last.op = "update_tracks" =>
        \A a \in 1..Len(last.active_tracks) :
            \E id \in {last.active_tracks[a].track_id} :
                TrackOf(tracks, id).hits = n_init =>
                    /\ id \in DOMAIN track_history
                    /\ ConsecutiveFrames(track_history[id])

\* doubled x coordinates left of, on, inside and right of the boundaries'
\* extent and the region
OtherXs == { -200, 0, 100, 200, 400, 4000 }

\* C32: the distance is taken to each boundary's infinite line.  For the
\* horizontal derived boundaries, the result of a check_vehicle_crossing
\* call and the fields after it are those the same call gives, from the
\* same state, for a center with the same y and any other x, inside or
\* outside the boundaries' extent and the region.
C32_UnclampedDistance ==
    [][ last'.op = "check_vehicle_crossing" =>
          \A x \in OtherXs :
            \E other \in {CrossingOutcome(RoiState, last'.track_id,
                                          <<x, last'.center_point[2]>>,
                                          last'.direction, last'.vehicle_type)} :
              /\ last'.result = other.result
              /\ crossed_vehicles' = other.roi.crossed_vehicles
              /\ vehicle_counts' = other.roi.vehicle_counts
              /\ entry_log' = other.roi.entry_log
              /\ exit_log' = other.roi.exit_log ]_vars

\* a center at x = 200, right of the square region and of its boundaries
\* (x from 0 to 100), counted at the exit boundary
C32_Witness ==
    /\ roi_points = Square
    /\ last.op = "check_vehicle_crossing"
    /\ last.center_point = <<400, 240>>
    /\ last.result = <<TRUE, "out", "exit">>
    /\ counting_lines[2].end[1] = 100

\* the positions of the call's detections that the matching m left unmatched,
\* in the order of the list
UnmatchedDetections(m) ==
    SelectSeq([j \in 1..Len(last'.detections) |-> j],
              LAMBDA j : \A a \in 1..Len(m[2]) : m[2][a] # j)

\* the tracks the call created, in the order of their identities
CreatedTracks == SelectSeq(tracks', LAMBDA t : t.track_id >= next_id)

\* C33: every detection passed to update_tracks is accounted for exactly
\* once in the call: it is matched to exactly one existing track, which
\* takes its box and gains a hit, or it creates exactly one new track with
\* hit count 1 and age 0, never both and never neither; the call creates
\* exactly as many tracks as it has unmatched detections.
C33_DetectionAccounting ==
    [][last'.op = "update_tracks" =>
        \A m \in {StepMatching} :
        \E unmatched \in {UnmatchedDetections(m)} :
        \E created \in {CreatedTracks} :
            /\ \A j \in 1..Len(last'.detections) :
                 Cardinality({ a \in 1..Len(m[2]) : m[2][a] = j }) <= 1
            /\ \A a \in 1..Len(m[1]) :
                 \E u \in {TrackOf(tracks', tracks[m[1][a]].track_id)} :
                    /\ u.bbox = last'.detections[m[2][a]].bbox
                    /\ u.hits = tracks[m[1][a]].hits + 1
                    /\ u.age = 0
            /\ Len(created) = Len(unmatched)
            /\ next_id' = next_id + Len(unmatched)
            /\ \A k \in 1..Len(created) :
                 created[k] = NewTrack(next_id + k - 1, last'.detections[unmatched[k]])
            /\ Len(m[2]) + Len(created) = Len(last'.detections)
    ]_vars

\* a frame with two detections: one re-associated with track 1, the other
\* starting track 2
C33_Witness ==
    /\ last.op = "update_tracks"
    /\ Len(last.detections) = 2
    /\ Len(tracks) = 2
    /\ tracks[1].hits = 2
    /\ tracks[1].age = 0
    /\ tracks[2].hits = 1
    /\ tracks[2].age = 0
    /\ tracks[2].track_id = 2
    /\ frame_count = 2

\* the identity is in the list the call returned, with this box and center
ReturnedAs(id, bbox, center) ==
    \E a \in 1..Len(last'.active_tracks) :
        /\ last'.active_tracks[a].track_id = id
        /\ last'.active_tracks[a].bbox = bbox
        /\ last'.active_tracks[a].center = center

Returned(id) ==
    \E a \in 1..Len(last'.active_tracks) : last'.active_tracks[a].track_id = id

\* C34: coasting.  A confirmed track that is not detected in a call is
\* still returned, with its last observed box and center, while its age
\* after the call is between 1 and max_age - 1; when its age becomes
\* max_age it is not returned although the tracker still holds it; when its
\* age becomes max_age + 1 it is deleted with its history.
C34_Coasting ==
    [][last'.op = "update_tracks" =>
        \A m \in {StepMatching} : \A i \in 1..Len(tracks) :
            \E t \in {tracks[i]} :
                (t.hits >= n_init /\ \A a \in 1..Len(m[1]) : m[1][a] # i) =>
                    /\ t.age + 1 < max_age =>
                         /\ t.track_id \in TrackIds(tracks')
                         /\ TrackOf(tracks', t.track_id).age = t.age + 1
                         /\ ReturnedAs(t.track_id, t.bbox, t.center)
                    /\ t.age + 1 = max_age =>
                         /\ t.track_id \in TrackIds(tracks')
                         /\ TrackOf(tracks', t.track_id).age = max_age
                         /\ ~Returned(t.track_id)
                    /\ t.age + 1 > max_age =>
                         /\ t.track_id \notin TrackIds(tracks')
                         /\ t.track_id \notin DOMAIN track_history'
                         /\ ~Returned(t.track_id)
    ]_vars

\* a track confirmed in frames 1 to 3 was returned while it coasted in
\* frame 4 and is missed again in frame 5: its age is max_age, the tracker
\* holds it and the call returned nothing
C34_Witness ==
    /\ last.op = "update_tracks"
    /\ frame_count = 5
    /\ Len(tracks) = 1
    /\ tracks[1].hits = 3
    /\ tracks[1].age = max_age
    /\ Len(track_history[1]) = 2
    /\ last.active_tracks = <<>>


(***************************************************************************)
(* C35: with the default parameters, after every update_tracks call every  *)
(* identity that has a history is a live track, the history of a live      *)
(* track holds min(hits - 1, 30) entries (none for a track that was never  *)
(* re-associated), the frames of the entries increase strictly, and the    *)
(* entries are the most recent associations: a call that associates a      *)
(* track appends the entry of this frame to what the history held and      *)
(* drops the oldest entry only beyond 30, any other call leaves the        *)
(* history alone.                                                          *)
(***************************************************************************)
HistoryOf(history, id) == IF id \in DOMAIN history THEN history[id] ELSE <<>>

LastEntries(h, n) == IF Len(h) > n THEN SubSeq(h, Len(h) - n + 1, Len(h)) ELSE h

HistoryShape ==
    /\ DOMAIN track_history \subseteq TrackIds(tracks)
    /\ \A i \in 1..Len(tracks) :
        LET h == HistoryOf(track_history, tracks[i].track_id)
        IN  /\ Len(h) = Min(tracks[i].hits - 1, 30)
            /\ \A k \in 1..(Len(h) - 1) : h[k].frame < h[k + 1].frame
            /\ Len(h) >= 1 => h[Len(h)].frame = frame_count - tracks[i].age

HistoryStep ==
    last'.op = "update_tracks" =>
        \A i \in 1..Len(tracks') :
            LET id == tracks'[i].track_id
                old == HistoryOf(track_history, id)
                new == HistoryOf(track_history', id)
            IN  IF tracks'[i].age = 0 /\ tracks'[i].hits >= 2
                THEN /\ new = LastEntries(Append(old, new[Len(new)]), 30)
                     /\ new[Len(new)].frame = frame_count'
                     /\ new[Len(new)].bbox = tracks'[i].bbox
                     /\ new[Len(new)].center = tracks'[i].center
                ELSE new = old

C35_HistoryInvariant == [](max_age = 30 /\ n_init = 3 => HistoryShape) /\ [][HistoryStep]_vars

\* a track associated in 33 frames running: 32 re-associations, of which the
\* history holds the last 30, those of frames 4 to 33
C35_Witness ==
    /\ last.op = "update_tracks"
    /\ max_age = 30
    /\ Len(tracks) = 1
    /\ tracks[1].hits = 33
    /\ Len(track_history[tracks[1].track_id]) = 30
    /\ track_history[tracks[1].track_id][1].frame = 4
    /\ track_history[tracks[1].track_id][30].frame = 33


(***************************************************************************)
(* C36: the status of a job is always one of processing, completed and     *)
(* error; a job enters the status table as processing; a status that is    *)
(* completed or error never changes again; and every submitted job, whose  *)
(* stream yields finitely many frames, reaches completed or error.         *)
(***************************************************************************)
FinalStatus(j) == processing_status[j].status \in { "completed", "error" }

StatusKnown ==
    \A j \in DOMAIN processing_status :
        processing_status[j].status \in { "processing", "completed", "error" }

StatusOneWay ==
    \A j \in DOMAIN processing_status' :
        IF j \in DOMAIN processing_status
        THEN FinalStatus(j) => processing_status'[j].status = processing_status[j].status
        ELSE processing_status'[j].status = "processing"

C36_StatusOneWay ==
    /\ []StatusKnown
    /\ [][StatusOneWay]_vars
    /\ \A j \in StreamJobs :
         (j \in DOMAIN jobs) ~> (j \in DOMAIN processing_status /\ FinalStatus(j))

\* a job whose detector raised on the second frame: process_rtsp_stream has
\* stored error, the handler of the thread has stored it again, and the
\* thread has ended
C36_Witness ==
    /\ "job1" \in DOMAIN jobs
    /\ jobs["job1"].pc = "done"
    /\ jobs["job1"].stream.raises_at = 2
    /\ jobs["job1"].frame_count = 1
    /\ processing_status["job1"].status = "error"
    /\ processing_status["job1"].message = <<"Processing failed", "detector failed">>


(***************************************************************************)
(* C37: in every state, whatever job and file type is asked for, a         *)
(* response of download_file that sends a file is for a job whose status   *)
(* is completed and sends the output file or the log file of its status    *)
(* record; for an unknown job and for a job whose status is processing or  *)
(* error every response is a 404 that sends no file.                       *)
(***************************************************************************)
C37_DownloadGate ==
    \A process_id \in DownloadIds, file_type \in FileTypes :
        \A response \in DownloadFile(process_id, file_type) :
            /\ response.file # None =>
                 /\ process_id \in DOMAIN processing_status
                 /\ processing_status[process_id].status = "completed"
                 /\ response.file \in { processing_status[process_id].output_file,
                                        processing_status[process_id].log_file }
            /\ (\/ process_id \notin DOMAIN processing_status
                \/ processing_status[process_id].status # "completed")
                 => response.code = 404 /\ response.file = None

\* the log of a job that is in error was asked for and the answer was the 404
\* of line 165; the job had processed two frames when its detector raised
C37_Witness ==
    /\ last.op = "download_file"
    /\ last.process_id = "job1"
    /\ last.file_type = "log"
    /\ last.response = NotFoundResponse("Processing not completed or ID not found")
    /\ "job1" \in DOMAIN processing_status
    /\ processing_status["job1"].status = "error"
    /\ jobs["job1"].frame_count = 2


(***************************************************************************)
(* C38: whenever the status of a job is completed, its status record names *)
(* a log path and the file at that path has been written, also when the    *)
(* job counted no crossing.                                                *)
(***************************************************************************)
C38_LogWrittenOnCompletion ==
    \A j \in DOMAIN jobs :
        (j \in DOMAIN processing_status /\ processing_status[j].status = "completed") =>
            /\ processing_status[j].log_file # None
            /\ jobs[j].saved.written

(***************************************************************************)
(* C39: a job whose source was opened has a final status, completed or     *)
(* error, only with its capture and its writer released, whether the loop  *)
(* ended with the input, at the duration test or with an exception raised  *)
(* while a frame was processed.                                            *)
(***************************************************************************)
SourceWasOpened(j) == jobs[j].cap \in { "open", "released" }

C39_ReleasedBeforeFinalStatus ==
    \A j \in DOMAIN jobs :
        (j \in DOMAIN processing_status /\ FinalStatus(j) /\ SourceWasOpened(j)) =>
            /\ jobs[j].cap = "released"
            /\ jobs[j].out = "released"

====
